---------------------------- MODULE Spec2Model ----------------------------
(***************************************************************************)
(* TechFlow retention agent: the conversation orchestrator                 *)
(* (workflow.py, main.py), the keyword cascades of the greeter and the     *)
(* retention agent, and the audit log of customer_tools.py.                *)
(*                                                                         *)
(* Texts are sequences of one-character strings, so that Python's          *)
(* `phrase in text` is a real substring test and str.lower() a real        *)
(* conversion.  States hold texts by name (a TLA+ string); CharTable       *)
(* gives the characters of every name.                                     *)
(***************************************************************************)
EXTENDS Naturals, Sequences, FiniteSets, TLC

VARIABLES
    conv,       \* main.py: conversation_state (exists = FALSE models None)
    email,      \* main.py: customer_email ("" models None)
    auditLog,   \* customer_updates.log: the appended lines, in order
    turn,       \* number of workflow.run() calls made by the chat loop
    last,       \* the last workflow.run() call: the state before it, the nodes it ran,
                \* the generation call that failed in it and whether it raised
    fin,        \* function harness: the input text (a sequence of fragments)
    fout        \* function harness: the result of the function applied to fin

vars == <<conv, email, auditLog, turn, last, fin, fout>>

-----------------------------------------------------------------------------
(* Bounds *)

MaxTurns == 3
MaxFragments == 2
MaxFailTurns == 2

-----------------------------------------------------------------------------
(* Text layer *)

CharTable ==
     "still want to cancel" :> <<"s", "t", "i", "l", "l", " ", "w", "a", "n", "t", " ", "t", "o", " ", "c", "a", "n", "c", "e", "l">> @@
     "just cancel" :> <<"j", "u", "s", "t", " ", "c", "a", "n", "c", "e", "l">> @@
     "cancel anyway" :> <<"c", "a", "n", "c", "e", "l", " ", "a", "n", "y", "w", "a", "y">> @@
     "no i want to cancel" :> <<"n", "o", " ", "i", " ", "w", "a", "n", "t", " ", "t", "o", " ", "c", "a", "n", "c", "e", "l">> @@
     "proceed with cancellation" :> <<"p", "r", "o", "c", "e", "e", "d", " ", "w", "i", "t", "h", " ", "c", "a", "n", "c", "e", "l", "l", "a", "t", "i", "o", "n">> @@
     "cancel" :> <<"c", "a", "n", "c", "e", "l">> @@
     "cancellation" :> <<"c", "a", "n", "c", "e", "l", "l", "a", "t", "i", "o", "n">> @@
     "can't afford" :> <<"c", "a", "n", "'", "t", " ", "a", "f", "f", "o", "r", "d">> @@
     "can't pay" :> <<"c", "a", "n", "'", "t", " ", "p", "a", "y">> @@
     "too expensive" :> <<"t", "o", "o", " ", "e", "x", "p", "e", "n", "s", "i", "v", "e">> @@
     "get rid of" :> <<"g", "e", "t", " ", "r", "i", "d", " ", "o", "f">> @@
     "get rid" :> <<"g", "e", "t", " ", "r", "i", "d">> @@
     "remove" :> <<"r", "e", "m", "o", "v", "e">> @@
     "discount" :> <<"d", "i", "s", "c", "o", "u", "n", "t">> @@
     "custom billing" :> <<"c", "u", "s", "t", "o", "m", " ", "b", "i", "l", "l", "i", "n", "g">> @@
     "billing arrangements" :> <<"b", "i", "l", "l", "i", "n", "g", " ", "a", "r", "r", "a", "n", "g", "e", "m", "e", "n", "t", "s">> @@
     "payment plan" :> <<"p", "a", "y", "m", "e", "n", "t", " ", "p", "l", "a", "n">> @@
     "special payment" :> <<"s", "p", "e", "c", "i", "a", "l", " ", "p", "a", "y", "m", "e", "n", "t">> @@
     "flexible payment" :> <<"f", "l", "e", "x", "i", "b", "l", "e", " ", "p", "a", "y", "m", "e", "n", "t">> @@
     "change payment" :> <<"c", "h", "a", "n", "g", "e", " ", "p", "a", "y", "m", "e", "n", "t">> @@
     "overheat" :> <<"o", "v", "e", "r", "h", "e", "a", "t">> @@
     "charging" :> <<"c", "h", "a", "r", "g", "i", "n", "g">> @@
     "won't charge" :> <<"w", "o", "n", "'", "t", " ", "c", "h", "a", "r", "g", "e">> @@
     "phone won't" :> <<"p", "h", "o", "n", "e", " ", "w", "o", "n", "'", "t">> @@
     "not working" :> <<"n", "o", "t", " ", "w", "o", "r", "k", "i", "n", "g">> @@
     "technical" :> <<"t", "e", "c", "h", "n", "i", "c", "a", "l">> @@
     "troubleshoot" :> <<"t", "r", "o", "u", "b", "l", "e", "s", "h", "o", "o", "t">> @@
     "got charged" :> <<"g", "o", "t", " ", "c", "h", "a", "r", "g", "e", "d">> @@
     "charged" :> <<"c", "h", "a", "r", "g", "e", "d">> @@
     "what's the extra" :> <<"w", "h", "a", "t", "'", "s", " ", "t", "h", "e", " ", "e", "x", "t", "r", "a">> @@
     "what is the extra" :> <<"w", "h", "a", "t", " ", "i", "s", " ", "t", "h", "e", " ", "e", "x", "t", "r", "a">> @@
     "billing" :> <<"b", "i", "l", "l", "i", "n", "g">> @@
     "statement" :> <<"s", "t", "a", "t", "e", "m", "e", "n", "t">> @@
     "bill" :> <<"b", "i", "l", "l">> @@
     "unexpected charge" :> <<"u", "n", "e", "x", "p", "e", "c", "t", "e", "d", " ", "c", "h", "a", "r", "g", "e">> @@
     "custom" :> <<"c", "u", "s", "t", "o", "m">> @@
     "arrangements" :> <<"a", "r", "r", "a", "n", "g", "e", "m", "e", "n", "t", "s">> @@
     "yes" :> <<"y", "e", "s">> @@
     "sure" :> <<"s", "u", "r", "e">> @@
     "ok" :> <<"o", "k">> @@
     "transfer" :> <<"t", "r", "a", "n", "s", "f", "e", "r">> @@
     "connect" :> <<"c", "o", "n", "n", "e", "c", "t">> @@
     "schedule" :> <<"s", "c", "h", "e", "d", "u", "l", "e">> @@
     "callback" :> <<"c", "a", "l", "l", "b", "a", "c", "k">> @@
     "process the cancellation" :> <<"p", "r", "o", "c", "e", "s", "s", " ", "t", "h", "e", " ", "c", "a", "n", "c", "e", "l", "l", "a", "t", "i", "o", "n">> @@
     "process your cancellation" :> <<"p", "r", "o", "c", "e", "s", "s", " ", "y", "o", "u", "r", " ", "c", "a", "n", "c", "e", "l", "l", "a", "t", "i", "o", "n">> @@
     "i understand your decision to cancel" :> <<"i", " ", "u", "n", "d", "e", "r", "s", "t", "a", "n", "d", " ", "y", "o", "u", "r", " ", "d", "e", "c", "i", "s", "i", "o", "n", " ", "t", "o", " ", "c", "a", "n", "c", "e", "l">> @@
     "respect your choice to cancel" :> <<"r", "e", "s", "p", "e", "c", "t", " ", "y", "o", "u", "r", " ", "c", "h", "o", "i", "c", "e", " ", "t", "o", " ", "c", "a", "n", "c", "e", "l">> @@
     "proceed with canceling" :> <<"p", "r", "o", "c", "e", "e", "d", " ", "w", "i", "t", "h", " ", "c", "a", "n", "c", "e", "l", "i", "n", "g">> @@
     "before we" :> <<"b", "e", "f", "o", "r", "e", " ", "w", "e">> @@
     "let me offer" :> <<"l", "e", "t", " ", "m", "e", " ", "o", "f", "f", "e", "r">> @@
     "i can arrange" :> <<"i", " ", "c", "a", "n", " ", "a", "r", "r", "a", "n", "g", "e">> @@
     "we can" :> <<"w", "e", " ", "c", "a", "n">> @@
     "how about" :> <<"h", "o", "w", " ", "a", "b", "o", "u", "t">> @@
     "i understand your decision" :> <<"i", " ", "u", "n", "d", "e", "r", "s", "t", "a", "n", "d", " ", "y", "o", "u", "r", " ", "d", "e", "c", "i", "s", "i", "o", "n">> @@
     "in this response" :> <<"i", "n", " ", "t", "h", "i", "s", " ", "r", "e", "s", "p", "o", "n", "s", "e">> @@
     "i'm empathizing" :> <<"i", "'", "m", " ", "e", "m", "p", "a", "t", "h", "i", "z", "i", "n", "g">> @@
     "i'm offering" :> <<"i", "'", "m", " ", "o", "f", "f", "e", "r", "i", "n", "g">> @@
     "this option provides" :> <<"t", "h", "i", "s", " ", "o", "p", "t", "i", "o", "n", " ", "p", "r", "o", "v", "i", "d", "e", "s">> @@
     "i'm presenting" :> <<"i", "'", "m", " ", "p", "r", "e", "s", "e", "n", "t", "i", "n", "g">> @@
     "in this response i'm" :> <<"i", "n", " ", "t", "h", "i", "s", " ", "r", "e", "s", "p", "o", "n", "s", "e", " ", "i", "'", "m">> @@
     "afford" :> <<"a", "f", "f", "o", "r", "d">> @@
     "money" :> <<"m", "o", "n", "e", "y">> @@
     "cost" :> <<"c", "o", "s", "t">> @@
     "expensive" :> <<"e", "x", "p", "e", "n", "s", "i", "v", "e">> @@
     "financial" :> <<"f", "i", "n", "a", "n", "c", "i", "a", "l">> @@
     "broken" :> <<"b", "r", "o", "k", "e", "n">> @@
     "defect" :> <<"d", "e", "f", "e", "c", "t">> @@
     "issue" :> <<"i", "s", "s", "u", "e">> @@
     "problem" :> <<"p", "r", "o", "b", "l", "e", "m">> @@
     "return" :> <<"r", "e", "t", "u", "r", "n">> @@
     "never used" :> <<"n", "e", "v", "e", "r", " ", "u", "s", "e", "d">> @@
     "don't need" :> <<"d", "o", "n", "'", "t", " ", "n", "e", "e", "d">> @@
     "value" :> <<"v", "a", "l", "u", "e">> @@
     "worth" :> <<"w", "o", "r", "t", "h">> @@
     "useless" :> <<"u", "s", "e", "l", "e", "s", "s">> @@
     "waste" :> <<"w", "a", "s", "t", "e">> @@
     "Cancellation" :> <<"C", "a", "n", "c", "e", "l", "l", "a", "t", "i", "o", "n">> @@
     "overheating" :> <<"o", "v", "e", "r", "h", "e", "a", "t", "i", "n", "g">> @@
     "customer" :> <<"c", "u", "s", "t", "o", "m", "e", "r">> @@
     "hello" :> <<"h", "e", "l", "l", "o">> @@
     "please" :> <<"p", "l", "e", "a", "s", "e">> @@
     "need to cancel" :> <<"n", "e", "e", "d", " ", "t", "o", " ", "c", "a", "n", "c", "e", "l">> @@
     "no, just cancel" :> <<"n", "o", ",", " ", "j", "u", "s", "t", " ", "c", "a", "n", "c", "e", "l">> @@
     "phone won't charge" :> <<"p", "h", "o", "n", "e", " ", "w", "o", "n", "'", "t", " ", "c", "h", "a", "r", "g", "e">> @@
     "got charged twice" :> <<"g", "o", "t", " ", "c", "h", "a", "r", "g", "e", "d", " ", "t", "w", "i", "c", "e">> @@
     "tell me more" :> <<"t", "e", "l", "l", " ", "m", "e", " ", "m", "o", "r", "e">> @@
     "Yes please" :> <<"Y", "e", "s", " ", "p", "l", "e", "a", "s", "e">> @@
     "I can arrange a payment pause for you." :> <<"I", " ", "c", "a", "n", " ", "a", "r", "r", "a", "n", "g", "e", " ", "a", " ", "p", "a", "y", "m", "e", "n", "t", " ", "p", "a", "u", "s", "e", " ", "f", "o", "r", " ", "y", "o", "u", ".">> @@
     "I understand your decision to cancel." :> <<"I", " ", "u", "n", "d", "e", "r", "s", "t", "a", "n", "d", " ", "y", "o", "u", "r", " ", "d", "e", "c", "i", "s", "i", "o", "n", " ", "t", "o", " ", "c", "a", "n", "c", "e", "l", ".">> @@
     "I will process your cancellation today." :> <<"I", " ", "w", "i", "l", "l", " ", "p", "r", "o", "c", "e", "s", "s", " ", "y", "o", "u", "r", " ", "c", "a", "n", "c", "e", "l", "l", "a", "t", "i", "o", "n", " ", "t", "o", "d", "a", "y", ".">> @@
     "Before we proceed with cancellation, how about a discount?" :> <<"B", "e", "f", "o", "r", "e", " ", "w", "e", " ", "p", "r", "o", "c", "e", "e", "d", " ", "w", "i", "t", "h", " ", "c", "a", "n", "c", "e", "l", "l", "a", "t", "i", "o", "n", ",", " ", "h", "o", "w", " ", "a", "b", "o", "u", "t", " ", "a", " ", "d", "i", "s", "c", "o", "u", "n", "t", "?">> @@
     "I will proceed with canceling your plan." :> <<"I", " ", "w", "i", "l", "l", " ", "p", "r", "o", "c", "e", "e", "d", " ", "w", "i", "t", "h", " ", "c", "a", "n", "c", "e", "l", "i", "n", "g", " ", "y", "o", "u", "r", " ", "p", "l", "a", "n", ".">> @@
     "In this response I'm offering a pause; we can retry." :> <<"I", "n", " ", "t", "h", "i", "s", " ", "r", "e", "s", "p", "o", "n", "s", "e", " ", "I", "'", "m", " ", "o", "f", "f", "e", "r", "i", "n", "g", " ", "a", " ", "p", "a", "u", "s", "e", ";", " ", "w", "e", " ", "c", "a", "n", " ", "r", "e", "t", "r", "y", ".">> @@
     "Thanks for staying with us." :> <<"T", "h", "a", "n", "k", "s", " ", "f", "o", "r", " ", "s", "t", "a", "y", "i", "n", "g", " ", "w", "i", "t", "h", " ", "u", "s", ".">> @@
     "sarah.chen@email.com" :> <<"s", "a", "r", "a", "h", ".", "c", "h", "e", "n", "@", "e", "m", "a", "i", "l", ".", "c", "o", "m">> @@
     "not_provided" :> <<"n", "o", "t", "_", "p", "r", "o", "v", "i", "d", "e", "d">> @@
     "Cancel" :> <<"C", "a", "n", "c", "e", "l">> @@
     "Technical" :> <<"T", "e", "c", "h", "n", "i", "c", "a", "l">> @@
     "How about a discount?" :> <<"H", "o", "w", " ", "a", "b", "o", "u", "t", " ", "a", " ", "d", "i", "s", "c", "o", "u", "n", "t", "?">> @@
     "premium" :> <<"p", "r", "e", "m", "i", "u", "m">> @@
     "regular" :> <<"r", "e", "g", "u", "l", "a", "r">> @@
     "new" :> <<"n", "e", "w">> @@
     "Premium" :> <<"P", "r", "e", "m", "i", "u", "m">> @@
     "vip" :> <<"v", "i", "p">> @@
     "30%" :> <<"3", "0", "%">> @@
     "10%" :> <<"1", "0", "%">> @@
     "30 %" :> <<"3", "0", " ", "%">> @@
     "25%" :> <<"2", "5", "%">> @@
     "26%" :> <<"2", "6", "%">> @@
     "I want" :> <<"I", " ", "w", "a", "n", "t">> @@
     "%" :> <<"%">> @@
     "a 30% discount" :> <<"a", " ", "3", "0", "%", " ", "d", "i", "s", "c", "o", "u", "n", "t">> @@
     "I understand you are looking for a 30% discount." :> <<"I", " ", "u", "n", "d", "e", "r", "s", "t", "a", "n", "d", " ", "y", "o", "u", " ", "a", "r", "e", " ", "l", "o", "o", "k", "i", "n", "g", " ", "f", "o", "r", " ", "a", " ", "3", "0", "%", " ", "d", "i", "s", "c", "o", "u", "n", "t", ".">> @@
     "I can offer up to 25% as an agent." :> <<"I", " ", "c", "a", "n", " ", "o", "f", "f", "e", "r", " ", "u", "p", " ", "t", "o", " ", "2", "5", "%", " ", "a", "s", " ", "a", "n", " ", "a", "g", "e", "n", "t", ".">> @@
     "How about 10% off instead?" :> <<"H", "o", "w", " ", "a", "b", "o", "u", "t", " ", "1", "0", "%", " ", "o", "f", "f", " ", "i", "n", "s", "t", "e", "a", "d", "?">> @@
     "130%" :> <<"1", "3", "0", "%">> @@
     "or" :> <<"o", "r">> @@
     "0" :> <<"0">> @@
     "1" :> <<"1">> @@
     "not worth it" :> <<"n", "o", "t", " ", "w", "o", "r", "t", "h", " ", "i", "t">> @@
     "CUST_001" :> <<"C", "U", "S", "T", "_", "0", "0", "1">> @@
     "UNKNOWN" :> <<"U", "N", "K", "N", "O", "W", "N">> @@
     "" :> <<>>

Chars(s) == CharTable[s]

\* str.lower() on one character (ASCII letters)
LowerChar(c) ==
    CASE c = "A" -> "a" [] c = "B" -> "b" [] c = "C" -> "c" [] c = "D" -> "d"
      [] c = "E" -> "e" [] c = "F" -> "f" [] c = "G" -> "g" [] c = "H" -> "h"
      [] c = "I" -> "i" [] c = "J" -> "j" [] c = "K" -> "k" [] c = "L" -> "l"
      [] c = "M" -> "m" [] c = "N" -> "n" [] c = "O" -> "o" [] c = "P" -> "p"
      [] c = "Q" -> "q" [] c = "R" -> "r" [] c = "S" -> "s" [] c = "T" -> "t"
      [] c = "U" -> "u" [] c = "V" -> "v" [] c = "W" -> "w" [] c = "X" -> "x"
      [] c = "Y" -> "y" [] c = "Z" -> "z" [] OTHER -> c

\* str.lower()
Lower(t) == [i \in 1..Len(t) |-> LowerChar(t[i])] \o <<>>

\* Python `p in t` for strings: p occurs in t as a contiguous run of characters
Contains(t, p) ==
    \E i \in 0..(Len(t) - Len(p)) : \A j \in 1..Len(p) : t[i + j] = p[j]

\* any(phrase in t for phrase in phrases)
AnyPhraseIn(phrases, t) == \E p \in phrases : Contains(t, Chars(p))

RECURSIVE JoinWith(_, _)
\* sep.join(parts), parts a sequence of character sequences
JoinWith(sep, parts) ==
    IF parts = <<>> THEN <<>>
    ELSE IF Len(parts) = 1 THEN parts[1]
    ELSE parts[1] \o sep \o JoinWith(sep, Tail(parts))

\* The characters of a customer message typed as fragments separated by spaces
MessageText(frags) == JoinWith(<<" ">>, [i \in 1..Len(frags) |-> Chars(frags[i])])

-----------------------------------------------------------------------------
(* Inputs of a chat session *)

\* what the customer types in a session (no message holds an "@", so the
\* greeter's e-mail pattern finds no address in it)
SessionMessages ==
    {<<"Yes please">>, <<"no, just cancel">>, <<"phone won't charge">>}

\* what the customer answers to the e-mail prompt ("" : Enter)
SessionEmails == {"", "sarah.chen@email.com"}

\* retention outputs of the generator, as lines
RetentionOutputs ==
    {<<"I can arrange a payment pause for you.">>,
     <<"I understand your decision to cancel.">>,
     <<"I will proceed with canceling your plan.",
       "In this response I'm offering a pause; we can retry.">>}

-----------------------------------------------------------------------------
(* GreeterAgent: the keyword cascade *)

CancellationPhrases ==
    {"cancel", "cancellation", "can't afford", "can't pay",
     "too expensive", "get rid of", "get rid", "remove", "discount",
     "custom billing", "billing arrangements", "payment plan",
     "special payment", "flexible payment", "change payment"}

TechnicalPhrases ==
    {"overheat", "charging", "won't charge", "phone won't", "not working",
     "technical", "troubleshoot"}

BillingPhrases ==
    {"got charged", "charged", "what's the extra", "what is the extra",
     "billing", "statement", "bill", "unexpected charge"}

\* the phrases whose presence bars the billing branch
BillingGuards == {"can't afford", "cancel", "custom", "arrangements", "get rid"}

\* variant of the cascade: the technical branch tested before the cancellation branch
FallbackIntent_TechFirst(text) ==
    LET text_lower == Lower(text) IN
    IF AnyPhraseIn(TechnicalPhrases, text_lower) THEN "technical_support"
    ELSE IF AnyPhraseIn(CancellationPhrases, text_lower) THEN "cancellation"
    ELSE IF AnyPhraseIn(BillingPhrases, text_lower)
            /\ ~AnyPhraseIn(BillingGuards, text_lower) THEN "billing"
    ELSE "general"

\* variant of the cascade: the billing branch tested before the technical branch
FallbackIntent_BillingFirst(text) ==
    LET text_lower == Lower(text) IN
    IF AnyPhraseIn(CancellationPhrases, text_lower) THEN "cancellation"
    ELSE IF AnyPhraseIn(BillingPhrases, text_lower)
            /\ ~AnyPhraseIn(BillingGuards, text_lower) THEN "billing"
    ELSE IF AnyPhraseIn(TechnicalPhrases, text_lower)
            /\ ~Contains(text_lower, Chars("cancel")) THEN "technical_support"
    ELSE "general"

\* variant of the cascade: a billing branch that knows only the charge phrases
FallbackIntent_BillingNarrow(text) ==
    LET text_lower == Lower(text) IN
    IF AnyPhraseIn(CancellationPhrases, text_lower) THEN "cancellation"
    ELSE IF AnyPhraseIn(TechnicalPhrases, text_lower)
            /\ ~Contains(text_lower, Chars("cancel")) THEN "technical_support"
    ELSE IF AnyPhraseIn({"got charged", "unexpected charge"}, text_lower)
            /\ ~AnyPhraseIn(BillingGuards, text_lower) THEN "billing"
    ELSE "general"

\* _parse_fallback: the intent chosen by the if/elif cascade on text.lower()
FallbackIntent(text) ==
    LET text_lower == Lower(text) IN
    IF AnyPhraseIn(CancellationPhrases, text_lower) THEN "cancellation"
    ELSE IF AnyPhraseIn(TechnicalPhrases, text_lower)
            /\ ~Contains(text_lower, Chars("cancel")) THEN "technical_support"
    ELSE IF AnyPhraseIn(BillingPhrases, text_lower)
            /\ ~AnyPhraseIn(BillingGuards, text_lower) THEN "billing"
    ELSE "general"

\* _parse_fallback: next_agent from intent
FallbackNextAgent(intent) ==
    IF intent = "cancellation" THEN "retention"
    ELSE IF intent = "technical_support" THEN "technical_support"
    ELSE IF intent = "billing" THEN "billing"
    ELSE "none"

\* FallbackIntent of the session's messages, computed once
FallbackIntentMemo == [m \in SessionMessages |-> FallbackIntent(MessageText(m))]

\* _parse_fallback(text, email, customer_data), text the message typed as fragments
ParseFallback(message, em) ==
    LET intent == IF message \in SessionMessages THEN FallbackIntentMemo[message]
                  ELSE FallbackIntent(MessageText(message)) IN
    [intent |-> intent,
     customer_email |-> IF em # "" THEN em ELSE "not_provided",
     next_agent |-> FallbackNextAgent(intent)]

-----------------------------------------------------------------------------
(* customer_tools.py *)

\* customers.csv, read by get_customer_data: one known customer
Customers ==
    [e \in {"sarah.chen@email.com"} |-> [customer_id |-> "CUST_001", tier |-> "premium"]]

\* {} : no customer profile
NoData == [customer_id |-> "", tier |-> ""]

\* get_customer_data(email): the profile whose email matches case-insensitively,
\* NoData when the lookup returns an error
GetCustomerData(em) ==
    LET hits == {e \in DOMAIN Customers : Lower(Chars(e)) = Lower(Chars(em))} IN
    IF hits = {} THEN NoData ELSE Customers[CHOOSE e \in hits : TRUE]

\* update_customer_status(customer_id, action): the line appended to the log
LogEntry(customer_id, action) == [customer |-> customer_id, action |-> action]

-----------------------------------------------------------------------------
(* GreeterAgent.process *)

\* What re.search + json.loads make of the generator's classification output:
\* parsed = FALSE when no object is found or json.loads raises; otherwise the
\* object's fields, "<absent>" for a key the object lacks.
Absent == "<absent>"

GreeterOutput(parsed, intent, next_agent, customer_email) ==
    [parsed |-> parsed, intent |-> intent, next_agent |-> next_agent,
     customer_email |-> customer_email]

\* variant: a missing field defaults (general, none) instead of the keyword cascade
GreeterProcess_DefaultsOnMissing(message, em, llm) ==
    [intent |-> IF llm.parsed /\ llm.intent # Absent THEN llm.intent ELSE "general",
     customer_email |-> em,
     customer_data |-> IF em # "" THEN GetCustomerData(em) ELSE NoData,
     next_agent |-> IF llm.parsed /\ llm.next_agent # Absent THEN llm.next_agent ELSE "none"]

\* GreeterAgent.process(customer_message, customer_email), llm the generator's output.
\* The re.findall e-mail extraction finds nothing: no modelled message holds an "@".
GreeterProcess(message, em, llm) ==
    LET customer_data == IF em # "" THEN GetCustomerData(em) ELSE NoData
        usable == llm.parsed /\ llm.intent # Absent /\ llm.next_agent # Absent
        fb == ParseFallback(message, em)
        result == IF usable
                  THEN [intent |-> llm.intent,
                        customer_email |-> IF llm.customer_email = Absent THEN ""
                                           ELSE llm.customer_email,
                        next_agent |-> llm.next_agent]
                  ELSE fb
    IN [intent |-> result.intent,
        customer_email |-> IF result.customer_email # "" THEN result.customer_email ELSE em,
        customer_data |-> customer_data,
        next_agent |-> result.next_agent]

-----------------------------------------------------------------------------
(* RetentionAgent.process: post-processing of the generator's output *)

ReasoningPhrases ==
    {"in this response", "i'm empathizing", "i'm offering",
     "this option provides", "i'm presenting", "in this response i'm"}

AcceptancePhrases ==
    {"process the cancellation", "proceed with cancellation",
     "process your cancellation", "i understand your decision to cancel",
     "respect your choice to cancel", "proceed with canceling"}

OfferPhrases == {"before we", "let me offer", "i can arrange", "we can", "how about"}

\* The characters of a generated text given as lines
LinesText(lines) == JoinWith(<<"\n">>, [i \in 1..Len(lines) |-> Chars(lines[i])])

\* line.lower().strip() contains a reasoning phrase (no phrase begins or ends with a blank)
IsReasoningLine(line) == AnyPhraseIn(ReasoningPhrases, Lower(Chars(line)))

\* cleaned_lines: the lines before the first reasoning line
CleanedLines(lines) ==
    LET hits == {i \in 1..Len(lines) : IsReasoningLine(lines[i])} IN
    IF hits = {} THEN lines
    ELSE SubSeq(lines, 1, (CHOOSE i \in hits : \A j \in hits : i <= j) - 1)

\* a line str.strip() reduces to nothing
IsBlankLine(line) == \A i \in 1..Len(Chars(line)) : Chars(line)[i] \in {" ", "\n"}

RECURSIVE StripLines(_)
\* '\n'.join(cleaned_lines).strip(), on lines that carry no outer blanks themselves
StripLines(lines) ==
    IF lines = <<>> THEN <<>>
    ELSE IF IsBlankLine(lines[1]) THEN StripLines(Tail(lines))
    ELSE IF IsBlankLine(lines[Len(lines)]) THEN StripLines(SubSeq(lines, 1, Len(lines) - 1))
    ELSE lines

\* response_text after the clean-up, reverting to response.content when empty
ResponseText(raw) ==
    LET cleaned == StripLines(CleanedLines(raw)) IN
    IF cleaned = <<>> THEN raw ELSE cleaned

\* variant: the flag without the offer-phrase test
ShouldProcessCancellation_AcceptOnly(response_text) ==
    AnyPhraseIn(AcceptancePhrases, Lower(LinesText(response_text)))

\* should_process_cancellation, decided on response_text.lower()
ShouldProcessCancellation(response_text) ==
    LET response_lower == Lower(LinesText(response_text)) IN
    AnyPhraseIn(AcceptancePhrases, response_lower)
        /\ ~AnyPhraseIn(OfferPhrases, response_lower)

\* RetentionAgent.process: the fields of the result the workflow reads
RetentionReturn(response_text) ==
    [response |-> response_text,
     should_process_cancellation |-> ShouldProcessCancellation(response_text)]

\* RetentionAgent.process from the generator's output to the returned result
RetentionResult(raw) == RetentionReturn(ResponseText(raw))

\* RetentionResult of the session's generator outputs, computed once
RetentionResultMemo == [raw \in RetentionOutputs |-> RetentionResult(raw)]

\* self.retention.process(...), raw the generator's output
RetentionProcess(raw) ==
    IF raw \in RetentionOutputs THEN RetentionResultMemo[raw] ELSE RetentionResult(raw)

-----------------------------------------------------------------------------
(* workflow.py: ConversationState and the graph nodes *)

\* A run in progress: the state dict, the nodes executed so far, the log lines written
Machine(st, steps, log) == [st |-> st, steps |-> steps, log |-> log]

Response(agent, response, spc) ==
    [agent |-> agent, response |-> response, should_process_cancellation |-> spc]

\* run(): initial_state of a new conversation
InitialState(customer_message, customer_email) ==
    [exists |-> TRUE,
     customer_message |-> customer_message,
     customer_email |-> customer_email,
     customer_data |-> NoData,
     intent |-> "",
     next_agent |-> "",
     conversation_history |-> <<>>,
     agent_responses |-> <<>>,
     final_action |-> "",
     completed |-> FALSE,
     should_process_cancellation |-> FALSE]

\* main(): conversation_state = None
NoState == [InitialState(<<>>, "") EXCEPT !.exists = FALSE]

\* _greeter_node after self.greeter.process returned result
GreeterNodeUpdate(m, result) ==
    LET state == m.st
        s1 == [state EXCEPT
                 !.intent = result.intent,
                 !.next_agent = result.next_agent,
                 !.customer_email = IF result.customer_email # ""
                                    THEN result.customer_email
                                    ELSE state.customer_email,
                 !.customer_data = result.customer_data]
        s2 == IF result.intent = "general" /\ result.next_agent = "none"
              THEN [s1 EXCEPT
                      !.agent_responses = Append(@, Response("greeter", <<"general answer">>, FALSE)),
                      !.completed = TRUE]
              ELSE [s1 EXCEPT
                      !.agent_responses = Append(@,
                          Response("greeter",
                                   <<"Intent classified", result.intent, result.next_agent>>,
                                   FALSE))]
    IN Machine(s2, Append(m.steps, "greeter"), m.log)

\* _greeter_node, llm the generator's classification output
GreeterNode(m, llm) ==
    GreeterNodeUpdate(m, GreeterProcess(m.st.customer_message, m.st.customer_email, llm))

\* _retention_node after self.retention.process returned result
RetentionNodeUpdate(m, result) ==
    LET state == m.st
        s1 == IF state.customer_data = NoData /\ state.customer_email # ""
              THEN [state EXCEPT !.customer_data = GetCustomerData(state.customer_email)]
              ELSE state
        s2 == [s1 EXCEPT
                 !.agent_responses = Append(@,
                     Response("retention", result.response, result.should_process_cancellation)),
                 !.should_process_cancellation = result.should_process_cancellation,
                 !.conversation_history = @ \o <<s1.customer_message, result.response>>]
    IN Machine(s2, Append(m.steps, "retention"), m.log)

\* _retention_node, raw the generator's output as lines
RetentionNode(m, raw) == RetentionNodeUpdate(m, RetentionProcess(raw))

\* variant: a processor step that writes no log line
ProcessorNode_NoLog(m) ==
    LET state == m.st
        s1 == [state EXCEPT
                 !.agent_responses = Append(@, Response("processor", <<"confirmation">>, FALSE)),
                 !.final_action = "cancellation_processed",
                 !.completed = TRUE]
    IN Machine(s1, Append(m.steps, "processor"), m.log)

\* whether customer_updates.log can be opened and written; a session has the
\* log writable unless its environment says otherwise
LogWritable == fin.kind # "unwritable"

\* update_customer_status(customer_id, action): the returned dict, with the
\* lines it appended to the log; the except branch returns an error dict
UpdateCustomerStatus(customer_id, action, writable) ==
    IF writable
    THEN [success |-> TRUE, error |-> "", written |-> <<LogEntry(customer_id, action)>>]
    ELSE [success |-> FALSE, error |-> "Error updating customer status", written |-> <<>>]

\* ProcessorAgent.process_cancellation after update_customer_status returned
ProcessCancellationResult(update_result) ==
    [agent |-> "processor",
     response |-> <<"confirmation">>,
     action |-> "cancellation_processed",
     update_logged |-> update_result.success,
     written |-> update_result.written]

\* ProcessorAgent.process_cancellation(customer_id, customer_email, reason)
ProcessCancellation(customer_id, reason, writable) ==
    ProcessCancellationResult(UpdateCustomerStatus(customer_id, <<"cancel", reason>>, writable))

\* customer_data.get("customer_id", "UNKNOWN")
CustomerId(state) ==
    IF state.customer_data = NoData THEN "UNKNOWN" ELSE state.customer_data.customer_id

\* _processor_node after process_cancellation returned result
ProcessorNodeUpdate(m, result) ==
    Machine([m.st EXCEPT
               !.agent_responses = Append(@, Response("processor", result.response, FALSE)),
               !.final_action = "cancellation_processed",
               !.completed = TRUE],
            Append(m.steps, "processor"),
            m.log \o result.written)

\* _processor_node with ProcessorAgent.process_cancellation
ProcessorNode(m) ==
    ProcessorNodeUpdate(m, ProcessCancellation(CustomerId(m.st), m.st.intent, LogWritable))

\* _technical_support_node
TechnicalSupportNode(m) ==
    LET s1 == [m.st EXCEPT
                 !.agent_responses = Append(@,
                     Response("technical_support", <<"technical support introduction">>, FALSE)),
                 !.final_action = "routed_to_technical_support",
                 !.completed = TRUE]
    IN Machine(s1, Append(m.steps, "technical_support"), m.log)

\* _billing_node
BillingNode(m) ==
    LET s1 == [m.st EXCEPT
                 !.agent_responses = Append(@,
                     Response("billing", <<"billing introduction">>, FALSE)),
                 !.final_action = "routed_to_billing",
                 !.completed = TRUE]
    IN Machine(s1, Append(m.steps, "billing"), m.log)

\* variant: a router that sends every other target to the retention node
RouteFromGreeter_ElseRetention(state) ==
    IF state.next_agent = "technical_support" THEN "technical_support"
    ELSE IF state.next_agent = "billing" THEN "billing"
    ELSE "retention"

\* _route_from_greeter
RouteFromGreeter(state) ==
    IF state.next_agent = "retention" THEN "retention"
    ELSE IF state.next_agent = "technical_support" THEN "technical_support"
    ELSE IF state.next_agent = "billing" THEN "billing"
    ELSE "end"

RouteAcceptancePhrases ==
    {"process the cancellation", "proceed with cancellation",
     "i understand your decision", "respect your choice to cancel"}

\* the last element of a non-empty list
LastOf(seq) == seq[Len(seq)]

\* _route_from_retention: the acceptance test on retention_response
RouteAccepts(response_text) ==
    AnyPhraseIn(RouteAcceptancePhrases, Lower(LinesText(response_text)))

\* RouteAccepts of the session's retention responses, computed once
RouteAcceptsMemo ==
    [t \in {RetentionResult(raw).response : raw \in RetentionOutputs} |-> RouteAccepts(t)]

\* _route_from_retention
RouteFromRetention(state) ==
    IF state.should_process_cancellation
       /\ state.agent_responses # <<>>
       /\ LastOf(state.agent_responses).agent = "retention"
       /\ LET t == LastOf(state.agent_responses).response IN
          IF t \in DOMAIN RouteAcceptsMemo THEN RouteAcceptsMemo[t] ELSE RouteAccepts(t)
    THEN "processor"
    ELSE "end"

\* _build_workflow: the conditional edges leaving the retention node
AfterRetention(r) ==
    IF RouteFromRetention(r.st) = "processor" THEN ProcessorNode(r) ELSE r

\* variant: a graph with an edge from the greeter to the processor, taken
\* when the message already insists on the cancellation
AfterGreeter_DirectCommit(g, raw) ==
    IF RouteFromGreeter(g.st) = "retention"
    THEN IF AnyPhraseIn({"just cancel"}, Lower(MessageText(g.st.customer_message)))
         THEN ProcessorNode(g)
         ELSE AfterRetention(RetentionNode(g, raw))
    ELSE IF RouteFromGreeter(g.st) = "technical_support" THEN TechnicalSupportNode(g)
    ELSE IF RouteFromGreeter(g.st) = "billing" THEN BillingNode(g)
    ELSE g

\* _build_workflow: the conditional edges leaving the greeter node
AfterGreeter(g, raw) ==
    IF RouteFromGreeter(g.st) = "retention" THEN AfterRetention(RetentionNode(g, raw))
    ELSE IF RouteFromGreeter(g.st) = "technical_support" THEN TechnicalSupportNode(g)
    ELSE IF RouteFromGreeter(g.st) = "billing" THEN BillingNode(g)
    ELSE g

\* self.workflow.invoke(state): the compiled graph of _build_workflow
Invoke(state, llm, raw) ==
    AfterGreeter(GreeterNode(Machine(state, <<>>, <<>>), llm), raw)

-----------------------------------------------------------------------------
(* workflow.py: MultiAgentWorkflow.run *)

InsistencePhrases ==
    {"still want to cancel", "just cancel", "cancel anyway",
     "no i want to cancel", "proceed with cancellation"}

BillingAffirmatives == {"yes", "sure", "ok", "transfer", "connect"}

TechnicalAffirmatives == {"yes", "sure", "ok", "schedule", "callback"}

\* any(phrase in message_lower for phrase in phrases)
MessageHasAny(phrases, customer_message) ==
    AnyPhraseIn(phrases, Lower(MessageText(customer_message)))

\* MessageHasAny for the phrase lists of run() on the session's messages, computed once
MessageHasAnyMemo ==
    [k \in {"insistence", "billing", "technical"} |->
       [m \in SessionMessages |->
          MessageHasAny(CASE k = "insistence" -> InsistencePhrases
                          [] k = "billing" -> BillingAffirmatives
                          [] k = "technical" -> TechnicalAffirmatives, m)]]

\* insists_on_cancel
InsistsOnCancel(customer_message) ==
    IF customer_message \in SessionMessages
    THEN MessageHasAnyMemo["insistence"][customer_message]
    ELSE MessageHasAny(InsistencePhrases, customer_message)

\* billing branch: the customer wants the transfer
WantsTransfer(customer_message) ==
    IF customer_message \in SessionMessages
    THEN MessageHasAnyMemo["billing"][customer_message]
    ELSE MessageHasAny(BillingAffirmatives, customer_message)

\* technical branch: the customer wants the callback
WantsCallback(customer_message) ==
    IF customer_message \in SessionMessages
    THEN MessageHasAnyMemo["technical"][customer_message]
    ELSE MessageHasAny(TechnicalAffirmatives, customer_message)

\* variant: the copy without the reset of completed
ContinuedState_KeepCompleted(customer_message, customer_email, previous_state) ==
    [previous_state EXCEPT
       !.customer_message = customer_message,
       !.customer_email = IF customer_email # "" THEN customer_email ELSE @,
       !.conversation_history = Append(@, customer_message)]

\* run(), previous_state given: the copy with the new message recorded
ContinuedState(customer_message, customer_email, previous_state) ==
    [previous_state EXCEPT
       !.customer_message = customer_message,
       !.customer_email = IF customer_email # "" THEN customer_email ELSE @,
       !.completed = FALSE,
       !.conversation_history = Append(@, customer_message)]

\* variant: the role of the first response instead of the last
LastAgentType_First(state) ==
    IF state.agent_responses = <<>> THEN ""
    ELSE state.agent_responses[1].agent

\* last_agent_type, "" when agent_responses is empty
LastAgentType(state) ==
    IF state.agent_responses = <<>> THEN ""
    ELSE LastOf(state.agent_responses).agent

\* variant: every continued conversation is classified again
RunBranch_AlwaysRegreet(previous_state) ==
    IF ~previous_state.exists THEN "new" ELSE "regreet"

\* The branch of run() a call takes
RunBranch(previous_state) ==
    IF ~previous_state.exists THEN "new"
    ELSE IF LastAgentType(previous_state) = "retention" THEN "retention"
    ELSE IF LastAgentType(previous_state) = "billing" THEN "billing"
    ELSE IF LastAgentType(previous_state) = "technical_support" THEN "technical_support"
    ELSE "regreet"

\* run(), retention branch: the processor step when the customer insists or
\* the retention step set the flag
CommitIfInsisted(insists_on_cancel, r) ==
    IF insists_on_cancel \/ r.st.should_process_cancellation
    THEN ProcessorNode(r)
    ELSE r

\* variant: a retention branch that ignores the insistence phrases
RetentionFollowup_FlagOnly(state, raw) ==
    CommitIfInsisted(FALSE,
        RetentionNode(Machine([state EXCEPT !.next_agent = "retention"], <<>>, <<>>), raw))

\* run(): the retention branch
RetentionFollowup(state, raw) ==
    CommitIfInsisted(InsistsOnCancel(state.customer_message),
        RetentionNode(Machine([state EXCEPT !.next_agent = "retention"], <<>>, <<>>), raw))

\* run(): the billing branch
BillingFollowup(state) ==
    LET text == IF WantsTransfer(state.customer_message)
                THEN <<"billing transfer confirmation">>
                ELSE <<"billing elaboration">>
        s1 == [state EXCEPT
                 !.agent_responses = Append(@, Response("billing", text, FALSE)),
                 !.final_action = "billing_followup",
                 !.completed = TRUE]
    IN Machine(s1, <<"billing">>, <<>>)

\* run(): the technical support branch
TechnicalFollowup(state) ==
    LET text == IF WantsCallback(state.customer_message)
                THEN <<"callback confirmation">>
                ELSE <<"troubleshooting elaboration">>
        s1 == [state EXCEPT
                 !.agent_responses = Append(@, Response("technical_support", text, FALSE)),
                 !.final_action = "technical_support_followup",
                 !.completed = TRUE]
    IN Machine(s1, <<"technical_support">>, <<>>)

\* run(): no role to continue with, classify again on the carried state
Regreet(state, llm, raw) ==
    Invoke([state EXCEPT !.intent = "", !.next_agent = ""], llm, raw)

\* run(customer_message, customer_email, previous_state)
Run(customer_message, customer_email, previous_state, llm, raw) ==
    LET branch == RunBranch(previous_state)
        state == ContinuedState(customer_message, customer_email, previous_state)
    IN IF branch = "new"
       THEN Invoke(InitialState(customer_message, customer_email), llm, raw)
       ELSE IF branch = "retention" THEN RetentionFollowup(state, raw)
       ELSE IF branch = "billing" THEN BillingFollowup(state)
       ELSE IF branch = "technical_support" THEN TechnicalFollowup(state)
       ELSE Regreet(state, llm, raw)

-----------------------------------------------------------------------------
(* main.py: the chat loop *)

\* variant: a chat loop without the reset rule
ResetRule_Never(conversation_state) == FALSE

\* main(): the previous turn was a standalone general question
ResetRule(conversation_state) ==
    conversation_state.exists
        /\ conversation_state.intent = "general"
        /\ conversation_state.next_agent = "none"

\* the previous_state main() passes to run()
PassedState(conversation_state) ==
    IF ResetRule(conversation_state) THEN NoState ELSE conversation_state

-----------------------------------------------------------------------------
(* Inputs *)

\* classification outputs of the generator, for a prompt built with e-mail em
GreeterOutputs(em) ==
    LET echo == IF em # "" THEN em ELSE "not_provided" IN
    {GreeterOutput(FALSE, Absent, Absent, Absent),
     GreeterOutput(TRUE, "cancellation", "retention", echo),
     GreeterOutput(TRUE, "billing", "billing", echo),
     GreeterOutput(TRUE, "general", "none", Absent),
     GreeterOutput(TRUE, "general", "retention", echo),
     GreeterOutput(TRUE, "billing", Absent, echo)}

\* the retention outputs a call can consume: none unless it reaches the retention node
RawChoices(previous_state, customer_message, customer_email, llm) ==
    LET branch == RunBranch(previous_state)
        st == IF branch = "new" THEN InitialState(customer_message, customer_email)
              ELSE ContinuedState(customer_message, customer_email, previous_state)
        reaches == \/ branch = "retention"
                   \/ /\ branch \in {"new", "regreet"}
                      /\ RouteFromGreeter(GreeterNode(Machine(st, <<>>, <<>>), llm).st) = "retention"
    IN IF reaches THEN RetentionOutputs ELSE {<<>>}

\* the classification outputs a call can consume: none unless it reaches the greeter node
LlmChoices(previous_state, customer_email) ==
    IF RunBranch(previous_state) \in {"new", "regreet"}
    THEN GreeterOutputs(IF customer_email # "" THEN customer_email
                        ELSE IF previous_state.exists THEN previous_state.customer_email
                        ELSE "")
    ELSE {GreeterOutput(FALSE, Absent, Absent, Absent)}

-----------------------------------------------------------------------------
(* The chat session *)

NoTurn ==
    [before |-> NoState, passed |-> NoState, steps |-> <<>>, auditBefore |-> 0,
     failed |-> "none", raised |-> FALSE]

Init ==
    /\ conv = NoState
    /\ email = ""
    /\ auditLog = <<>>
    /\ turn = 0
    /\ last = NoTurn
    /\ fin = [kind |-> "none", parts |-> <<>>]
    /\ fout = [fn |-> "none"]

\* One pass of the chat loop: read a message (and the e-mail while none is known),
\* apply the reset rule, call workflow.run, keep the result
Turn ==
    /\ turn < MaxTurns
    /\ \E customer_message \in SessionMessages,
          email_input \in (IF email = "" THEN SessionEmails ELSE {""}) :
         LET customer_email == IF email = "" THEN email_input ELSE email
             previous_state == PassedState(conv)
         IN \E llm \in LlmChoices(previous_state, customer_email) :
            \E raw \in RawChoices(previous_state, customer_message, customer_email, llm) :
            \E result \in {Run(customer_message, customer_email, previous_state, llm, raw)} :
              /\ conv' = result.st
              /\ email' = customer_email
              /\ auditLog' = auditLog \o result.log
              /\ turn' = turn + 1
              /\ last' = [before |-> conv, passed |-> previous_state, steps |-> result.steps,
                          auditBefore |-> Len(auditLog), failed |-> "none", raised |-> FALSE]
    /\ UNCHANGED <<fin, fout>>

Next == Turn

Spec == Init /\ [][Next]_vars

-----------------------------------------------------------------------------
(* The pure functions on bounded inputs: every text of at most MaxFragments *)
(* fragments is classified, every generated text of at most MaxFragments   *)
(* lines is post-processed.                                                *)

RECURSIVE SeqsUpTo(_, _)
\* the non-empty sequences over S of length at most n
SeqsUpTo(S, n) ==
    IF n = 0 THEN {}
    ELSE LET shorter == SeqsUpTo(S, n - 1) IN
         {<<x>> : x \in S} \cup shorter \cup {Append(s, x) : s \in shorter, x \in S}

\* fragments of customer messages
MessageVocabulary ==
    {"Cancel", "can't afford", "payment plan", "get rid", "custom",
     "arrangements", "overheating", "not working", "Technical", "got charged",
     "billing", "statement", "hello", "customer"}

\* lines of generated retention texts
LineVocabulary ==
    {"I understand your decision to cancel.",
     "I will process your cancellation today.",
     "I can arrange a payment pause for you.",
     "How about a discount?",
     "Before we proceed with cancellation, how about a discount?",
     "In this response I'm offering a pause; we can retry.",
     "Thanks for staying with us.",
     ""}

\* classification outputs of the generator tried on every message
HarnessGreeterOutputs ==
    {GreeterOutput(FALSE, Absent, Absent, Absent),
     GreeterOutput(TRUE, "billing", Absent, Absent),
     GreeterOutput(TRUE, Absent, "billing", Absent),
     GreeterOutput(TRUE, "general", "none", Absent)}

InitFunctions ==
    /\ conv = NoState
    /\ email = ""
    /\ auditLog = <<>>
    /\ turn = 0
    /\ last = NoTurn
    /\ fin \in [kind : {"message"}, parts : SeqsUpTo(MessageVocabulary, MaxFragments)]
               \cup [kind : {"generated"}, parts : SeqsUpTo(LineVocabulary, MaxFragments)]
    /\ fout = [fn |-> "none"]

\* GreeterAgent.process applied to the message
ClassifyIntent ==
    /\ fin.kind = "message"
    /\ fout.fn = "none"
    /\ \E llm \in HarnessGreeterOutputs :
         fout' = [fn |-> "greeter", llm |-> llm, result |-> GreeterProcess(fin.parts, "", llm)]
    /\ UNCHANGED <<conv, email, auditLog, turn, last, fin>>

\* RetentionAgent.process applied to the generated text
PlanResponse ==
    /\ fin.kind = "generated"
    /\ fout.fn = "none"
    /\ fout' = [fn |-> "retention", result |-> RetentionProcess(fin.parts)]
    /\ UNCHANGED <<conv, email, auditLog, turn, last, fin>>

NextFunctions == ClassifyIntent \/ PlanResponse

SpecFunctions == InitFunctions /\ [][NextFunctions]_vars

-----------------------------------------------------------------------------
(* Properties *)

\* the role of the most recent response before the last run() call
AgentBefore ==
    IF last.before.agent_responses = <<>> THEN ""
    ELSE last.before.agent_responses[Len(last.before.agent_responses)].agent

\* the responses the last run() call appended
NewResponses ==
    SubSeq(conv.agent_responses, Len(last.passed.agent_responses) + 1,
           Len(conv.agent_responses))

\* the last call was a follow-up to a retention response
RetentionFollowupTurn == turn > 0 /\ last.before.exists /\ AgentBefore = "retention"

\* the incoming message of the last call holds an insistence phrase
MessageInsists ==
    \E p \in InsistencePhrases :
        Contains(Lower(MessageText(conv.customer_message)), Chars(p))

\* the planner's should_process_cancellation in a retention follow-up
PlannerFlag == NewResponses # <<>> /\ NewResponses[1].should_process_cancellation

\* the commit-cancellation step ran in the last call
CommitRan == \E i \in 1..Len(last.steps) : last.steps[i] = "processor"

\* the identifier the audit entry of the session's customer carries
ProfileIdentifier ==
    IF email \in DOMAIN Customers THEN Customers[email].customer_id ELSE "UNKNOWN"

\* C1: once the retention role answered last, the next run() call is handled
\* by the retention continuation (then, possibly, the commit step): neither
\* the intent classifier nor the billing or technical handler runs, and the
\* reset rule does not apply.
C1_RetentionKeepsTheConversation ==
    RetentionFollowupTurn =>
        /\ last.steps # <<>>
        /\ last.steps[1] = "retention"
        /\ \A i \in 1..Len(last.steps) : last.steps[i] \in {"retention", "processor"}
        /\ NewResponses # <<>>
        /\ \A i \in 1..Len(NewResponses) :
              NewResponses[i].agent \in {"retention", "processor"}

C1_Witness ==
    /\ turn = 3
    /\ RetentionFollowupTurn
    /\ last.steps = <<"retention">>
    /\ Len(conv.agent_responses) = 4

\* C2: in a retention follow-up, an insistence phrase in the message or a true
\* planner flag makes the same call run the commit step after the retention
\* step and end terminal.
C2_InsistenceCommits ==
    (RetentionFollowupTurn /\ (MessageInsists \/ PlannerFlag)) =>
        /\ last.steps = <<"retention", "processor">>
        /\ conv.completed
        /\ conv.final_action = "cancellation_processed"

C2_Witness ==
    /\ RetentionFollowupTurn
    /\ MessageInsists
    /\ ~PlannerFlag
    /\ last.steps = <<"retention", "processor">>

\* C3: in a retention follow-up with no insistence phrase and a false planner
\* flag, exactly one retention response is appended, no processor response
\* and no audit entry is produced, and completed is false.
C3_OfferRoundStaysOpen ==
    (RetentionFollowupTurn /\ ~MessageInsists /\ ~PlannerFlag) =>
        /\ Len(NewResponses) = 1
        /\ NewResponses[1].agent = "retention"
        /\ Len(auditLog) = last.auditBefore
        /\ ~conv.completed
        /\ last.steps = <<"retention">>

C3_Witness ==
    /\ RetentionFollowupTurn
    /\ ~MessageInsists
    /\ ~PlannerFlag
    /\ Len(NewResponses) = 1
    /\ ~conv.completed

\* C4: the planner's flag is true exactly when the returned response text
\* holds an acceptance phrase and no offer phrase: false without an
\* acceptance phrase, false with an offer phrase.
C4_FlagIffAcceptanceAndNoOffer ==
    fout.fn = "retention" =>
        LET t == Lower(LinesText(fout.result.response))
            accepts == \E p \in AcceptancePhrases : Contains(t, Chars(p))
            offers == \E p \in OfferPhrases : Contains(t, Chars(p))
        IN /\ fout.result.should_process_cancellation <=> (accepts /\ ~offers)
           /\ ~accepts => ~fout.result.should_process_cancellation
           /\ offers => ~fout.result.should_process_cancellation

C4_Witness ==
    /\ fout.fn = "retention"
    /\ fout.result.should_process_cancellation
    /\ fout.result.response # fin.parts

\* C5: a call in which the commit step ran wrote exactly one audit entry, for
\* the customer's profile identifier (UNKNOWN without a profile), appended
\* exactly one processor response, the last one, and ended with
\* final_action = cancellation_processed and completed = TRUE.
C5_CommitStepEffects ==
    (turn > 0 /\ CommitRan) =>
        /\ Len(auditLog) = last.auditBefore + 1
        /\ auditLog[Len(auditLog)].customer = ProfileIdentifier
        /\ Cardinality({i \in 1..Len(NewResponses) : NewResponses[i].agent = "processor"}) = 1
        /\ NewResponses[Len(NewResponses)].agent = "processor"
        /\ conv.final_action = "cancellation_processed"
        /\ conv.completed

C5_Witness ==
    /\ turn > 0
    /\ CommitRan
    /\ Len(auditLog) = 2
    /\ auditLog[2].customer = "CUST_001"

\* C6: after a retention offer round, the reply "no, just cancel" ends with
\* should_process_cancellation = TRUE, final_action = cancellation_processed
\* and exactly one audit entry appended for the customer.
C6_JustCancelSetsFlagAndCommits ==
    (RetentionFollowupTurn /\ conv.customer_message = <<"no, just cancel">>) =>
        /\ conv.should_process_cancellation
        /\ conv.final_action = "cancellation_processed"
        /\ Len(auditLog) = last.auditBefore + 1
        /\ auditLog[Len(auditLog)].customer = ProfileIdentifier

\* the states run() can return for a first message of a conversation
FreshOutcomes(customer_message, customer_email) ==
    {Run(customer_message, customer_email, NoState, llm, raw).st :
        llm \in GreeterOutputs(customer_email), raw \in RetentionOutputs}

\* the previous turn ended terminal with intent general and no routing target
AfterStandaloneAnswer ==
    /\ turn > 0
    /\ last.before.exists
    /\ last.before.completed
    /\ last.before.intent = "general"
    /\ last.before.next_agent = "none"

\* C7: after a turn that ended terminal with intent general and routing target
\* none, the next message is processed from a fresh state: the result holds
\* only this call's responses and history and is a result the same message
\* has as the first message of a conversation.
C7_ResetStartsFresh ==
    AfterStandaloneAnswer =>
        /\ Len(conv.agent_responses) = Len(last.steps)
        /\ conv.agent_responses[1].agent = "greeter"
        /\ Len(conv.conversation_history) \in {0, 2}
        /\ conv.conversation_history # <<>> =>
              conv.conversation_history[1] = conv.customer_message
        /\ conv \in FreshOutcomes(conv.customer_message, email)

C7_Witness ==
    /\ AfterStandaloneAnswer
    /\ turn = 2
    /\ conv.intent = "cancellation"
    /\ Len(conv.agent_responses) = 2

\* the keyword cascade classified the message of the harness
FallbackClassified ==
    /\ fout.fn = "greeter"
    /\ ~(fout.llm.parsed /\ fout.llm.intent # Absent /\ fout.llm.next_agent # Absent)

\* the message of the harness holds one of the phrases, in any letter case
MessageHolds(phrases) ==
    \E p \in phrases : Contains(Lower(MessageText(fin.parts)), Chars(p))

\* C8: a message holding a cancellation phrase together with a technical or a
\* billing phrase is classified cancellation by the keyword cascade.
C8_CancellationPrecedence ==
    (FallbackClassified /\ MessageHolds(CancellationPhrases)
        /\ (MessageHolds(TechnicalPhrases) \/ MessageHolds(BillingPhrases))) =>
        fout.result.intent = "cancellation"

C8_Witness ==
    /\ FallbackClassified
    /\ MessageHolds({"cancel"})
    /\ MessageHolds(TechnicalPhrases)
    /\ fout.result.intent = "cancellation"

\* C9: a message holding a technical phrase and no cancellation phrase is
\* classified technical_support by the keyword cascade.
C9_TechnicalWithoutCancellation ==
    (FallbackClassified /\ MessageHolds(TechnicalPhrases)
        /\ ~MessageHolds(CancellationPhrases)) =>
        fout.result.intent = "technical_support"

C9_Witness ==
    /\ FallbackClassified
    /\ MessageHolds(TechnicalPhrases)
    /\ MessageHolds(BillingPhrases)
    /\ ~MessageHolds(CancellationPhrases)
    /\ fout.result.intent = "technical_support"

\* the cancellation, affordability and custom-payment phrases of the cascade,
\* with the words that bar its billing branch
CancelAffordCustomPhrases == CancellationPhrases \cup BillingGuards

\* C10 as stated: a message holding a billing phrase and no cancellation,
\* affordability or custom-payment phrase is classified billing.
C10_BillingWithoutCancellation ==
    (FallbackClassified /\ MessageHolds(BillingPhrases)
        /\ ~MessageHolds(CancelAffordCustomPhrases)) =>
        fout.result.intent = "billing"

\* C10 amended: a message holding a billing phrase, no cancellation,
\* affordability or custom-payment phrase and no technical phrase is
\* classified billing; with a technical phrase it is technical_support.
C10_BillingWithoutCancellationOrTechnical ==
    (FallbackClassified /\ MessageHolds(BillingPhrases)
        /\ ~MessageHolds(CancelAffordCustomPhrases)) =>
        fout.result.intent =
            IF MessageHolds(TechnicalPhrases) THEN "technical_support" ELSE "billing"

C10_Witness ==
    /\ FallbackClassified
    /\ MessageHolds(BillingPhrases)
    /\ ~MessageHolds(CancelAffordCustomPhrases)
    /\ ~MessageHolds(TechnicalPhrases)
    /\ fout.result.intent = "billing"

\* the routing target the mapping assigns to an intent
RoutingImage(intent) ==
    CASE intent = "cancellation" -> "retention"
      [] intent = "technical_support" -> "technical_support"
      [] intent = "billing" -> "billing"
      [] OTHER -> "none"

\* the last call ran the intent classifier
ClassifiedThisTurn == turn > 0 /\ last.steps # <<>> /\ last.steps[1] = "greeter"

\* C11: in every classification result, from the generator's output or from
\* the keyword cascade, the routing target is the image of the intent.
C11_RouteIsImageOfIntent ==
    ClassifiedThisTurn => conv.next_agent = RoutingImage(conv.intent)

\* C12: when the generator's output holds no parseable object, or the object
\* lacks intent or next_agent, the classification result is the keyword
\* cascade's result for the customer message.
C12_FallbackOnParseFailure ==
    (fout.fn = "greeter"
        /\ (~fout.llm.parsed \/ fout.llm.intent = Absent \/ fout.llm.next_agent = Absent)) =>
        /\ fout.result.intent = FallbackIntent(MessageText(fin.parts))
        /\ fout.result.next_agent = FallbackNextAgent(FallbackIntent(MessageText(fin.parts)))

C12_Witness ==
    /\ fout.fn = "greeter"
    /\ fout.llm.parsed
    /\ fout.llm.intent = Absent
    /\ fout.llm.next_agent = "billing"
    /\ fout.result.intent = "cancellation"
    /\ fout.result.next_agent = "retention"

-----------------------------------------------------------------------------
(* Generation calls that fail *)

\* the generation calls of a turn: greeter_agent.py:91, workflow.py:138,
\* retention_agent.py:184, processor_agent.py:36
GenerationCalls == {"classification", "answer", "retention", "confirmation"}

\* the generation calls the run m made, in order
CallsOf(m) ==
    [i \in 1..Len(m.steps) |->
        CASE m.steps[i] = "greeter" ->
               IF Len(m.steps) = 1 /\ m.st.intent = "general" /\ m.st.next_agent = "none"
               THEN <<"classification", "answer">>
               ELSE <<"classification">>
          [] m.steps[i] = "retention" -> <<"retention">>
          [] m.steps[i] = "processor" -> <<"confirmation">>
          [] OTHER -> <<>>]

\* the position in m.steps of the node that makes the call, 0 when m never makes it
NodeOfCall(m, call) ==
    IF \E i \in 1..Len(m.steps) : \E j \in 1..Len(CallsOf(m)[i]) : CallsOf(m)[i][j] = call
    THEN CHOOSE i \in 1..Len(m.steps) : \E j \in 1..Len(CallsOf(m)[i]) : CallsOf(m)[i][j] = call
    ELSE 0

\* variant: a failed classification call handled like an unparseable output
OnCallFailure_FallbackOnClassification(call) ==
    IF call = "classification" THEN "fallback" ELSE "raise"

\* what the code around a generation call does when the call raises: no call
\* is inside a try block, the exception leaves the agent, the node and run()
OnCallFailure(call) == "raise"

\* run() in which the generation call `fail` raises if it is made: the run as
\* far as it got. The log line of the processor step is written before its call.
RunWithFailure(m, fallback, fail) ==
    IF NodeOfCall(m, fail) = 0 THEN m @@ [raised |-> FALSE, failed |-> "none"]
    ELSE IF OnCallFailure(fail) = "fallback" THEN fallback @@ [raised |-> FALSE, failed |-> fail]
    ELSE [st |-> m.st,
          steps |-> SubSeq(m.steps, 1, NodeOfCall(m, fail)),
          log |-> IF fail = "confirmation" THEN m.log ELSE <<>>,
          raised |-> TRUE,
          failed |-> fail]

\* conversation_state of main() after run() raised.  The object passed to
\* run() is kept (None after the reset rule); previous_state.copy() is shallow,
\* so what run() appended to the two lists before the failure is in it.
\* inGraph: whether the appends made inside self.workflow.invoke reach the
\* caller's lists.
StateAfterRaise(previous_state, customer_message, m, fail, inGraph) ==
    IF ~previous_state.exists THEN previous_state
    ELSE LET done == NodeOfCall(m, fail) - 1
             direct == RunBranch(previous_state) = "retention"
             seen == direct \/ inGraph
         IN [previous_state EXCEPT
               !.conversation_history =
                   IF seen /\ fail = "confirmation" THEN m.st.conversation_history
                   ELSE Append(@, customer_message),
               !.agent_responses =
                   IF seen THEN SubSeq(m.st.agent_responses, 1, Len(@) + done) ELSE @]

\* One pass of the chat loop in which a generation call raises: main() prints
\* the error and keeps conversation_state
FailedTurn ==
    /\ turn < MaxFailTurns
    /\ \E customer_message \in SessionMessages,
          email_input \in (IF email = "" THEN SessionEmails ELSE {""}) :
         LET customer_email == IF email = "" THEN email_input ELSE email
             previous_state == PassedState(conv)
         IN \E llm \in LlmChoices(previous_state, customer_email) :
            \E raw \in RawChoices(previous_state, customer_message, customer_email, llm) :
            \E m \in {Run(customer_message, customer_email, previous_state, llm, raw)} :
            \E fail \in {call \in GenerationCalls : NodeOfCall(m, call) # 0} :
            \E inGraph \in (IF RunBranch(previous_state) = "regreet" THEN BOOLEAN ELSE {FALSE}) :
            \E result \in {RunWithFailure(m,
                              Run(customer_message, customer_email, previous_state,
                                  GreeterOutput(FALSE, Absent, Absent, Absent), raw),
                              fail)} :
              /\ result.failed # "none"
              /\ conv' = IF result.raised
                         THEN StateAfterRaise(previous_state, customer_message, m, fail, inGraph)
                         ELSE result.st
              /\ email' = customer_email
              /\ auditLog' = auditLog \o result.log
              /\ turn' = turn + 1
              /\ last' = [before |-> conv, passed |-> previous_state, steps |-> result.steps,
                          auditBefore |-> Len(auditLog), failed |-> result.failed,
                          raised |-> result.raised]
    /\ UNCHANGED <<fin, fout>>

\* a pass of the chat loop in which every call returns
GoodTurn == turn < MaxFailTurns /\ Turn

NextFail == GoodTurn \/ FailedTurn

SpecFail == Init /\ [][NextFail]_vars

\* C13: when a generation call fails during a turn, run() raises to its
\* caller and returns no state: the caller's intent, routing target,
\* completed flag and final action are those it had, and no response of the
\* failing step is recorded; the keyword cascade does not stand in for the
\* failed classification call.
C13_CallFailureSurfaces ==
    (turn > 0 /\ last.failed # "none") =>
        /\ last.raised
        /\ conv.exists = last.passed.exists
        /\ conv.intent = last.passed.intent
        /\ conv.next_agent = last.passed.next_agent
        /\ conv.completed = last.passed.completed
        /\ conv.final_action = last.passed.final_action
        /\ Len(conv.agent_responses) < Len(last.passed.agent_responses) + Len(last.steps)

C13_Witness ==
    /\ turn = 2
    /\ last.failed = "classification"
    /\ last.raised
    /\ last.steps = <<"greeter">>
    /\ conv.exists
    /\ conv.intent = "cancellation"

-----------------------------------------------------------------------------
(* customer_tools.py: calculate_retention_offer, on catalogs given as input *)

\* an offer of retention_rules.json; authorization "<absent>" for an offer without the key
Offer(type, authorization) == [type |-> type, authorization |-> authorization]

\* a block without keys
EmptyBlock == [k \in {} |-> <<>>]

\* Catalogs tried as retention_rules.json (the file itself is not part of the
\* sources): the top-level blocks by reason, and the agent's
\* max_discount_percentage when authorization_levels gives one
Catalogs ==
    [full |->
       [blocks |->
          [financial_hardship |->
             [premium_customers |-> <<Offer("pause", "agent"), Offer("discount", "manager"),
                                      Offer("explain_benefits", Absent)>>,
              regular_customers |-> <<Offer("discount", "agent")>>],
           product_issues |->
             [overheating |-> <<Offer("replacement", "manager")>>,
              battery_issues |-> <<Offer("explain_benefits", Absent)>>],
           service_value |->
             [care_plus_premium |-> <<Offer("trial_extension", "agent"),
                                      Offer("custom", "supervisor")>>]],
        has_levels |-> TRUE,
        has_max |-> TRUE,
        max_discount_percentage |-> 20],
     sparse |->
       [blocks |->
          [financial_hardship |-> [new_customers |-> <<>>],
           product_issues |-> EmptyBlock],
        has_levels |-> TRUE,
        has_max |-> FALSE,
        max_discount_percentage |-> 0]]

\* the keys of the loaded rules object
RuleKeys(rules) ==
    DOMAIN rules.blocks \cup (IF rules.has_levels THEN {"authorization_levels"} ELSE {})

\* tier_mapping.get(customer_tier.lower())
TierKey(customer_tier) ==
    CASE Lower(Chars(customer_tier)) = Chars("premium") -> "premium_customers"
      [] Lower(Chars(customer_tier)) = Chars("regular") -> "regular_customers"
      [] Lower(Chars(customer_tier)) = Chars("new") -> "new_customers"
      [] OTHER -> Absent

OfferError(error) == [success |-> FALSE, error |-> error, offers |-> <<>>]

OfferSuccess(offers) == [success |-> TRUE, error |-> "", offers |-> offers]

\* reason_block.get(key, []) / the extend of a key that is present
BlockOffers(reason_block, key) ==
    IF key \in DOMAIN reason_block THEN reason_block[key] ELSE <<>>

\* variant: an unknown reason or tier answered with a successful empty list
CalculateRetentionOffer_EmptyOnUnknown(rules, customer_tier, reason) ==
    IF reason \notin DOMAIN rules.blocks THEN OfferSuccess(<<>>)
    ELSE IF reason = "financial_hardship"
    THEN OfferSuccess(BlockOffers(rules.blocks[reason], TierKey(customer_tier)))
    ELSE IF reason = "product_issues"
    THEN OfferSuccess(BlockOffers(rules.blocks[reason], "overheating")
                        \o BlockOffers(rules.blocks[reason], "battery_issues"))
    ELSE OfferSuccess(BlockOffers(rules.blocks[reason], "care_plus_premium"))

\* calculate_retention_offer(customer_tier, reason) on the loaded rules
CalculateRetentionOffer(rules, customer_tier, reason) ==
    IF reason \notin RuleKeys(rules) THEN OfferError("Unknown reason")
    ELSE IF reason = "financial_hardship"
    THEN IF TierKey(customer_tier) = Absent
            \/ TierKey(customer_tier) \notin DOMAIN rules.blocks[reason]
         THEN OfferError("No offers for tier")
         ELSE OfferSuccess(rules.blocks[reason][TierKey(customer_tier)])
    ELSE IF reason = "product_issues"
    THEN OfferSuccess(BlockOffers(rules.blocks[reason], "overheating")
                        \o BlockOffers(rules.blocks[reason], "battery_issues"))
    ELSE IF reason = "service_value"
    THEN OfferSuccess(BlockOffers(rules.blocks[reason], "care_plus_premium"))
    ELSE OfferError("No offers for reason")

-----------------------------------------------------------------------------
(* RetentionAgent.process: reason, offers and the discount request *)

FinancialWords == {"afford", "money", "cost", "expensive", "can't pay", "financial"}

ProductWords == {"overheat", "broken", "defect", "not working", "issue", "problem", "return"}

ValueWords == {"never used", "don't need", "value", "worth", "useless", "waste"}

\* variant: the service_value words are tried before the product_issues words
ClassifyReason_ValueBeforeProduct(message) ==
    IF MessageHasAny(FinancialWords, message) THEN "financial_hardship"
    ELSE IF MessageHasAny(ValueWords, message) THEN "service_value"
    ELSE IF MessageHasAny(ProductWords, message) THEN "product_issues"
    ELSE "financial_hardship"

\* _classify_reason(message, customer_data)
ClassifyReason(message) ==
    IF MessageHasAny(FinancialWords, message) THEN "financial_hardship"
    ELSE IF MessageHasAny(ProductWords, message) THEN "product_issues"
    ELSE IF MessageHasAny(ValueWords, message) THEN "service_value"
    ELSE "financial_hardship"

\* customer_data.get("tier", "regular")
CustomerTier(tier) == IF tier = "" THEN "regular" ELSE tier

DefaultMaxDiscount == 25

\* agent_limits.get("max_discount_percentage", 25)
MaxAgentDiscount(rules) ==
    IF rules.has_levels /\ rules.has_max THEN rules.max_discount_percentage
    ELSE DefaultMaxDiscount

\* variant: every offer of the catalog result is passed on
AgentOffers_All(offers_result) ==
    IF offers_result.success THEN offers_result.offers ELSE <<>>

\* agent_offers: the offers tagged agent and the offers without a tag, in order
AgentOffers(offers_result) ==
    IF offers_result.success
    THEN SelectSeq(offers_result.offers,
                   LAMBDA offer : offer.authorization = "agent" \/ offer.authorization = Absent)
    ELSE <<>>

Digits == {"0", "1", "2", "3", "4", "5", "6", "7", "8", "9"}

\* int() of one decimal digit
DigitValue(c) ==
    CASE c = "0" -> 0 [] c = "1" -> 1 [] c = "2" -> 2 [] c = "3" -> 3 [] c = "4" -> 4
      [] c = "5" -> 5 [] c = "6" -> 6 [] c = "7" -> 7 [] c = "8" -> 8 [] c = "9" -> 9

RECURSIVE DigitsValue(_)
\* int(discount_match.group(1))
DigitsValue(ds) ==
    IF ds = <<>> THEN 0
    ELSE 10 * DigitsValue(SubSeq(ds, 1, Len(ds) - 1)) + DigitValue(ds[Len(ds)])

\* (\d+) starting at i: the end of the run of digits
DigitRunEnd(t, i) ==
    CHOOSE j \in i..Len(t) :
        /\ \A k \in i..j : t[k] \in Digits
        /\ j = Len(t) \/ t[j + 1] \notin Digits

\* \s* after position j: the first position that holds no white space
AfterBlanks(t, j) ==
    CHOOSE k \in (j + 1)..(Len(t) + 1) :
        /\ \A n \in (j + 1)..(k - 1) : t[n] \in {" ", "\n", "\t"}
        /\ k = Len(t) + 1 \/ t[k] \notin {" ", "\n", "\t"}

\* r"(\d+)\s*%" matches at position i
PercentMatchAt(t, i) ==
    /\ t[i] \in Digits
    /\ AfterBlanks(t, DigitRunEnd(t, i)) <= Len(t)
    /\ t[AfterBlanks(t, DigitRunEnd(t, i))] = "%"

\* re.search(r"(\d+)\s*%", customer_message): the leftmost match, as a number
RequestedDiscount(t) ==
    LET starts == {i \in 1..Len(t) : PercentMatchAt(t, i)} IN
    IF starts = {} THEN [found |-> FALSE, value |-> 0]
    ELSE [found |-> TRUE,
          value |-> DigitsValue(SubSeq(t, CHOOSE i \in starts : \A j \in starts : i <= j,
                                       DigitRunEnd(t, CHOOSE i \in starts : \A j \in starts : i <= j)))]

\* the discount_warning put into the prompt; present = FALSE for None
DiscountWarningFor(guard, requested, max_agent_discount) ==
    IF guard /\ requested.found /\ requested.value > max_agent_discount
    THEN [present |-> TRUE, requested |-> requested.value, ceiling |-> max_agent_discount]
    ELSE [present |-> FALSE, requested |-> 0, ceiling |-> max_agent_discount]

\* the discount check of process(): the guard on message_lower, the search on customer_message
DiscountWarning(text, max_agent_discount) ==
    DiscountWarningFor(Contains(Lower(text), Chars("discount")) \/ Contains(Lower(text), Chars("%")),
                       RequestedDiscount(text), max_agent_discount)

\* the result of process() with the parts of the prompt it was generated from
PlanReturn(reason, customer_tier, offers_result, agent_offers, discount_warning, post) ==
    [agent |-> "retention",
     response |-> post.response,
     reason |-> reason,
     offers_available |-> Len(agent_offers) > 0,
     offers |-> agent_offers,
     should_process_cancellation |-> post.should_process_cancellation,
     customer_tier |-> customer_tier,
     lookup |-> offers_result,
     prompt |-> [discount_warning |-> discount_warning, offers |-> agent_offers]]

\* process() after the catalog lookup
PlanWithOffers(rules, message, reason, customer_tier, offers_result, raw) ==
    PlanReturn(reason, customer_tier, offers_result, AgentOffers(offers_result),
               DiscountWarning(MessageText(message), MaxAgentDiscount(rules)),
               RetentionProcess(raw))

\* process() after the reason and the tier are known
PlanFor(rules, message, reason, customer_tier, raw) ==
    PlanWithOffers(rules, message, reason, customer_tier,
                   CalculateRetentionOffer(rules, customer_tier, reason), raw)

\* RetentionAgent.process(customer_message, customer_email, customer_data, history)
\* for a profile of the given tier ("" without profile), raw the generator's output
RetentionPlan(rules, message, tier, raw) ==
    PlanFor(rules, message, ClassifyReason(message), CustomerTier(tier), raw)

-----------------------------------------------------------------------------
(* The catalog and the planner applied to bounded inputs *)

LookupTiers == {"premium", "Premium", "regular", "new", "vip"}

LookupReasons ==
    {"financial_hardship", "product_issues", "service_value", "authorization_levels", "pricing"}

\* fragments of messages that ask for a discount
PlanVocabulary ==
    {"I want", "a 30% discount", "10%", "30 %", "25%", "26%", "too expensive", "not working",
     "not worth it"}

PlanTiers == {"", "premium", "vip"}

\* generated retention texts for a discount request
PlanOutputs ==
    {<<"I can arrange a payment pause for you.">>,
     <<"I understand you are looking for a 30% discount.", "I can offer up to 25% as an agent.">>,
     <<"How about 10% off instead?", "I understand you are looking for a 30% discount.">>}

InitOffers ==
    /\ conv = NoState
    /\ email = ""
    /\ auditLog = <<>>
    /\ turn = 0
    /\ last = NoTurn
    /\ fin \in [kind : {"lookup"}, rules : DOMAIN Catalogs, tier : LookupTiers,
                reason : LookupReasons]
               \cup [kind : {"plan"}, rules : DOMAIN Catalogs, tier : PlanTiers,
                     parts : SeqsUpTo(PlanVocabulary, MaxFragments), raw : PlanOutputs]
    /\ fout = [fn |-> "none"]

\* calculate_retention_offer applied to a tier and a reason
LookupOffers ==
    /\ fin.kind = "lookup"
    /\ fout.fn = "none"
    /\ fout' = [fn |-> "offers",
                result |-> CalculateRetentionOffer(Catalogs[fin.rules], fin.tier, fin.reason)]
    /\ UNCHANGED <<conv, email, auditLog, turn, last, fin>>

\* RetentionAgent.process applied to a message
PlanOffers ==
    /\ fin.kind = "plan"
    /\ fout.fn = "none"
    /\ fout' = [fn |-> "plan",
                result |-> RetentionPlan(Catalogs[fin.rules], fin.parts, fin.tier, fin.raw)]
    /\ UNCHANGED <<conv, email, auditLog, turn, last, fin>>

NextOffers == LookupOffers \/ PlanOffers

SpecOffers == InitOffers /\ [][NextOffers]_vars


\* the agent-authorized offers of the planner's result: those returned and those in the prompt
AuthorizedSet == fout.result.offers \o fout.result.prompt.offers

\* C14: every offer of the agent-authorized set (given to the prompt and
\* returned as the response's offers) is tagged agent or carries no tag; no
\* offer tagged manager is in it.
C14_AgentSetHoldsNoManagerOffer ==
    fout.fn = "plan" =>
        /\ fout.result.offers = fout.result.prompt.offers
        /\ \A i \in 1..Len(AuthorizedSet) :
              /\ AuthorizedSet[i].authorization \in {"agent", Absent}
              /\ AuthorizedSet[i].authorization # "manager"

C14_Witness ==
    /\ fout.fn = "plan"
    /\ fout.result.lookup.success
    /\ \E i \in 1..Len(fout.result.lookup.offers) :
          fout.result.lookup.offers[i].authorization = "manager"
    /\ \E i \in 1..Len(fout.result.offers) : fout.result.offers[i].authorization = Absent
    /\ \E i \in 1..Len(fout.result.offers) : fout.result.offers[i].authorization = "agent"

\* the catalog of the lookup has a block of offers for the requested reason
LookupReasonKnown ==
    /\ fin.reason \in {"financial_hardship", "product_issues", "service_value"}
    /\ fin.reason \in DOMAIN Catalogs[fin.rules].blocks

\* the requested tier is one of premium, regular, new (in any letter case)
LookupTierNamed ==
    Lower(Chars(fin.tier)) \in {Chars("premium"), Chars("regular"), Chars("new")}

\* the financial_hardship block of the catalog has an entry for the requested tier
LookupTierMapped ==
    /\ LookupTierNamed
    /\ "financial_hardship" \in DOMAIN Catalogs[fin.rules].blocks
    /\ TierKey(fin.tier) \in DOMAIN Catalogs[fin.rules].blocks["financial_hardship"]

\* C15 as stated: the lookup returns an error, never a successful list,
\* whenever the reason is unknown or the tier is unmapped; it succeeds only
\* when the catalog has an entry for the reason (and tier).
C15_ErrorOnUnknownReasonOrTier ==
    fout.fn = "offers" =>
        /\ (~LookupReasonKnown \/ ~LookupTierNamed) => ~fout.result.success
        /\ fout.result.success => LookupReasonKnown

\* C15 amended: the lookup returns an error whenever the reason is unknown,
\* or the reason is financial_hardship and the tier is unmapped; for
\* product_issues and service_value the tier is not consulted.  It succeeds
\* only when the catalog has a block for the reason and, for
\* financial_hardship, an entry for the tier; an error carries no offers.
C15_ErrorOnUnknownReasonOrHardshipTier ==
    fout.fn = "offers" =>
        /\ ~LookupReasonKnown => ~fout.result.success
        /\ (fin.reason = "financial_hardship" /\ ~LookupTierMapped) => ~fout.result.success
        /\ fout.result.success =>
              /\ LookupReasonKnown
              /\ fin.reason = "financial_hardship" => LookupTierMapped
        /\ ~fout.result.success => (fout.result.error # "" /\ fout.result.offers = <<>>)
        /\ (LookupReasonKnown /\ fin.reason # "financial_hardship") => fout.result.success

C15_Witness ==
    /\ fout.fn = "offers"
    /\ fin.reason = "financial_hardship"
    /\ fin.tier = "vip"
    /\ LookupReasonKnown
    /\ ~fout.result.success
    /\ fout.result.error = "No offers for tier"

\* the catalog lookup of the planned retention turn returned an error
PlanLookupFailed ==
    /\ fout.fn = "plan"
    /\ ~fout.result.lookup.success

\* the planner returned an ordinary retention result with an empty offer list
NormalResultWithoutOffers ==
    /\ fout.result.agent = "retention"
    /\ fout.result.offers = <<>>
    /\ ~fout.result.offers_available
    /\ fout.result.response = ResponseText(fin.raw)

\* C16: when the catalog lookup fails during a retention turn, the turn does
\* not proceed to an ordinary retention response with an empty offer list.
C16_LookupFailureIsFatal ==
    PlanLookupFailed => ~NormalResultWithoutOffers

\* the values of all <digits>% percentages written in the text
PercentagesOf(t) ==
    {DigitsValue(SubSeq(t, i, DigitRunEnd(t, i))) :
        i \in {n \in 1..Len(t) : PercentMatchAt(t, n) /\ (n = 1 \/ t[n - 1] \notin Digits)}}

\* the percentages of the planned message that exceed the agent's maximum discount
OverLimitRequests ==
    {v \in PercentagesOf(MessageText(fin.parts)) : v > MaxAgentDiscount(Catalogs[fin.rules])}

\* C17: for every message with a <digits>% request above the agent's maximum
\* discount the prompt carries the disclosure instruction, naming the requested
\* percentage and the agent ceiling; when no requested percentage exceeds the
\* maximum, the prompt carries none.
C17_DisclosureIffOverLimit ==
    fout.fn = "plan" =>
        /\ OverLimitRequests # {} =>
              /\ fout.result.prompt.discount_warning.present
              /\ fout.result.prompt.discount_warning.requested \in OverLimitRequests
              /\ fout.result.prompt.discount_warning.ceiling = MaxAgentDiscount(Catalogs[fin.rules])
        /\ OverLimitRequests = {} => ~fout.result.prompt.discount_warning.present

\* a requested percentage as it is written in a message
PercentLabel(v) ==
    CASE v = 25 -> "25%" [] v = 26 -> "26%" [] v = 30 -> "30%" [] OTHER -> "%"

\* the planner saw a request above the agent ceiling
OverLimitPlan ==
    /\ fout.fn = "plan"
    /\ fout.result.prompt.discount_warning.present

\* the first line of the returned response names the requested percentage
AcknowledgesRequestFirst ==
    /\ fout.result.response # <<>>
    /\ Contains(Chars(fout.result.response[1]),
                Chars(PercentLabel(fout.result.prompt.discount_warning.requested)))

\* C18: for every over-limit discount request the returned retention response
\* acknowledges the requested percentage first, before any alternative offer.
C18_OverLimitAcknowledgedFirst ==
    OverLimitPlan => AcknowledgesRequestFirst

\* the last call was a follow-up handled by the billing or the technical role
RoleFollowupTurn(role) ==
    /\ turn > 0
    /\ last.failed = "none"
    /\ RunBranch(last.passed) = role

\* the incoming message of the last call holds one of the words
ReplyHolds(words) ==
    \E w \in words : Contains(Lower(MessageText(conv.customer_message)), Chars(w))

\* the one response the follow-up appended, by the role, with the given text
FollowupAnswered(role, text) ==
    /\ Len(NewResponses) = 1
    /\ NewResponses[1].agent = role
    /\ NewResponses[1].response = text

\* the follow-up of one role: confirmation and terminal on an affirmative
\* reply, elaboration and the same awaiting state on any other reply
FollowupContract(role, words, confirmation, elaboration) ==
    RoleFollowupTurn(role) =>
        IF ReplyHolds(words)
        THEN FollowupAnswered(role, confirmation) /\ conv.completed
        ELSE /\ FollowupAnswered(role, elaboration)
             /\ ~conv.completed
             /\ RunBranch(PassedState(conv)) = role

\* C19: in a billing (technical) follow-up a reply holding yes/sure/ok/transfer/
\* connect (yes/sure/ok/schedule/callback) gives the transfer (callback)
\* confirmation and ends terminal; any other reply gives an elaboration and the
\* conversation stays awaiting the reply, handled by the same role next.
C19_FollowupConfirmsOrStaysAwaiting ==
    /\ FollowupContract("billing", {"yes", "sure", "ok", "transfer", "connect"},
                        <<"billing transfer confirmation">>, <<"billing elaboration">>)
    /\ FollowupContract("technical_support", {"yes", "sure", "ok", "schedule", "callback"},
                        <<"callback confirmation">>, <<"troubleshooting elaboration">>)

\* the last call started a new conversation and classified it general with
\* routing target none
FreshGeneralTurn ==
    /\ turn > 0
    /\ last.failed = "none"
    /\ RunBranch(last.passed) = "new"
    /\ conv.intent = "general"
    /\ conv.next_agent = "none"

\* C20: a fresh turn classified general with routing target none is answered
\* directly with one greeter response, ends completed, and runs none of the
\* retention, billing, technical and commit handlers.
C20_GeneralAnsweredDirectly ==
    FreshGeneralTurn =>
        /\ last.steps = <<"greeter">>
        /\ conv.agent_responses = <<Response("greeter", <<"general answer">>, FALSE)>>
        /\ conv.completed
        /\ conv.final_action = ""
        /\ Len(auditLog) = last.auditBefore

C20_Witness ==
    /\ FreshGeneralTurn
    /\ last.steps = <<"greeter">>
    /\ conv.completed
    /\ Len(conv.agent_responses) = 1

-----------------------------------------------------------------------------
(* The first call of a session, for every classification the generator can give *)

Intents == {"cancellation", "technical_support", "billing", "general"}

NextAgents == {"retention", "technical_support", "billing", "none"}

\* every pair of the values the classification prompt asks for, and an unusable output
FirstTurnOutputs(em) ==
    {GreeterOutput(TRUE, intent, next_agent, IF em # "" THEN em ELSE "not_provided") :
        intent \in Intents, next_agent \in NextAgents}
    \cup {GreeterOutput(FALSE, Absent, Absent, Absent)}

\* main(): the first pass of the chat loop, run() called without previous state
FirstTurn ==
    /\ turn = 0
    /\ \E customer_message \in SessionMessages, customer_email \in SessionEmails :
         \E llm \in FirstTurnOutputs(customer_email) :
         \E raw \in RawChoices(NoState, customer_message, customer_email, llm) :
         \E result \in {Run(customer_message, customer_email, NoState, llm, raw)} :
           /\ conv' = result.st
           /\ email' = customer_email
           /\ auditLog' = auditLog \o result.log
           /\ turn' = turn + 1
           /\ last' = [before |-> conv, passed |-> NoState, steps |-> result.steps,
                       auditBefore |-> Len(auditLog), failed |-> "none", raised |-> FALSE]
    /\ UNCHANGED <<fin, fout>>

NextFirstTurn == FirstTurn

SpecFirstTurn == Init /\ [][NextFirstTurn]_vars

\* the first call of the session classified the message with the role's intent
FirstTurnClassified(role) ==
    /\ turn = 1
    /\ RunBranch(last.passed) = "new"
    /\ conv.intent = role

\* the outcome of a first call routed to the role and to nothing else
RoutedOnlyTo(role, action) ==
    /\ last.steps = <<"greeter", role>>
    /\ \A i \in 1..Len(conv.agent_responses) :
          conv.agent_responses[i].agent \notin {"retention", "processor"}
    /\ Len(auditLog) = last.auditBefore
    /\ conv.final_action = action

\* C21: a first turn classified technical_support or billing is routed to that
\* role and not to retention: no retention and no processor response, no
\* audit-log entry, final_action routed_to_technical_support or routed_to_billing.
C21_SupportRolesBypassRetention ==
    /\ FirstTurnClassified("technical_support") =>
          RoutedOnlyTo("technical_support", "routed_to_technical_support")
    /\ FirstTurnClassified("billing") => RoutedOnlyTo("billing", "routed_to_billing")

\* C22: the reason of a retention turn is decided by a first-match-wins cascade:
\* financial_hardship words, then product_issues words, then service_value
\* words; a message matching none gets financial_hardship, not an error.
C22_ReasonCascade ==
    fout.fn = "plan" =>
        /\ MessageHolds(FinancialWords) => fout.result.reason = "financial_hardship"
        /\ (~MessageHolds(FinancialWords) /\ MessageHolds(ProductWords)) =>
              fout.result.reason = "product_issues"
        /\ (~MessageHolds(FinancialWords) /\ ~MessageHolds(ProductWords)
              /\ MessageHolds(ValueWords)) => fout.result.reason = "service_value"
        /\ (~MessageHolds(FinancialWords) /\ ~MessageHolds(ProductWords)
              /\ ~MessageHolds(ValueWords)) =>
              (fout.result.reason = "financial_hardship" /\ fout.result.agent = "retention")

C22_Witness ==
    /\ fout.fn = "plan"
    /\ ~MessageHolds(FinancialWords)
    /\ MessageHolds({"not working"})
    /\ MessageHolds({"worth"})
    /\ fout.result.reason = "product_issues"

-----------------------------------------------------------------------------
(* Sessions in which the audit log may be unwritable *)

\* a session starts with the log writable or not
InitAudit ==
    /\ conv = NoState
    /\ email = ""
    /\ auditLog = <<>>
    /\ turn = 0
    /\ last = NoTurn
    /\ fin \in {[kind |-> "none", parts |-> <<>>], [kind |-> "unwritable", parts |-> <<>>]}
    /\ fout = [fn |-> "none"]

\* a pass of the chat loop
AuditTurn == turn < MaxFailTurns /\ Turn

NextAudit == AuditTurn

SpecAudit == InitAudit /\ [][NextAudit]_vars

\* the commit step of the last call could not append to the audit log
AuditWriteFailed == turn > 0 /\ CommitRan /\ ~LogWritable

\* what run() hands to its caller tells of the failed append: an exception, or
\* a response of the turn that carries the outcome of the update
AuditFailureReported ==
    \/ last.raised
    \/ \E i \in 1..Len(NewResponses) :
          /\ "update_logged" \in DOMAIN NewResponses[i]
          /\ ~NewResponses[i].update_logged

\* the turn returned the confirmation and kept the cancellation outcome
ConfirmationReturned ==
    /\ ~last.raised
    /\ NewResponses # <<>>
    /\ NewResponses[Len(NewResponses)] = Response("processor", <<"confirmation">>, FALSE)
    /\ conv.final_action = "cancellation_processed"
    /\ conv.completed

\* C23: when the audit-log append fails in the commit step, the failure is
\* reported to the caller of the turn, and the turn still returns the
\* confirmation with the cancellation outcome kept.
C23_AuditFailureReportedNotRolledBack ==
    AuditWriteFailed => (AuditFailureReported /\ ConfirmationReturned)

-----------------------------------------------------------------------------
(* Sessions in which the policy retrieval may find nothing or raise *)

\* what similarity_search_with_score does for the first query of a call:
\* it returns passages, returns none, or raises
RetrievalOutcomes == {"passages", "empty", "raises"}

NoContextText == "No relevant policy information found."

\* get_relevant_context when the search returned
GetRelevantContext(outcome) ==
    IF outcome = "empty" THEN NoContextText ELSE "passages"

\* the step of run() that makes the first retrieval of the call, "none" when
\* the call makes none
FirstRetrievalSite(previous_state, customer_message) ==
    CASE RunBranch(previous_state) \in {"new", "regreet"} -> "greeter"
      [] RunBranch(previous_state) = "retention" -> "retention"
      [] RunBranch(previous_state) = "billing" ->
            IF WantsTransfer(customer_message) THEN "none" ELSE "billing"
      [] RunBranch(previous_state) = "technical_support" ->
            IF WantsCallback(customer_message) THEN "none" ELSE "technical_support"

\* run() with the outcome of its first retrieval: search and
\* get_relevant_context have no try block, nor have their callers
RunWithRetrieval(m, site, outcome) ==
    IF site # "none" /\ outcome = "raises"
    THEN [st |-> m.st, steps |-> <<site>>, log |-> <<>>, raised |-> TRUE, context |-> "none"]
    ELSE m @@ [raised |-> FALSE,
               context |-> IF site = "none" THEN "none" ELSE GetRelevantContext(outcome)]

\* conversation_state of main() after the first retrieval of run() raised:
\* the object passed to run(), whose history list run() had appended to
StateAfterRetrievalRaise(previous_state, customer_message) ==
    IF ~previous_state.exists THEN previous_state
    ELSE [previous_state EXCEPT !.conversation_history = Append(@, customer_message)]

\* One pass of the chat loop with the outcome of the call's first retrieval
RetrievalTurn ==
    /\ turn < MaxFailTurns
    /\ \E customer_message \in SessionMessages,
          email_input \in (IF email = "" THEN SessionEmails ELSE {""}),
          outcome \in RetrievalOutcomes :
         LET customer_email == IF email = "" THEN email_input ELSE email
             previous_state == PassedState(conv)
         IN \E llm \in LlmChoices(previous_state, customer_email) :
            \E raw \in RawChoices(previous_state, customer_message, customer_email, llm) :
            \E site \in {FirstRetrievalSite(previous_state, customer_message)} :
            \E result \in {RunWithRetrieval(
                              Run(customer_message, customer_email, previous_state, llm, raw),
                              site, outcome)} :
              /\ conv' = IF result.raised
                         THEN StateAfterRetrievalRaise(previous_state, customer_message)
                         ELSE result.st
              /\ email' = customer_email
              /\ auditLog' = auditLog \o result.log
              /\ turn' = turn + 1
              /\ last' = [before |-> conv, passed |-> previous_state, steps |-> result.steps,
                          auditBefore |-> Len(auditLog),
                          failed |-> IF result.raised THEN "retrieval" ELSE "none",
                          raised |-> result.raised]
              /\ fout' = [fn |-> "retrieval", site |-> site, outcome |-> outcome,
                          context |-> result.context]
    /\ UNCHANGED fin

NextRetrieval == RetrievalTurn

SpecRetrieval == Init /\ [][NextRetrieval]_vars

\* the first retrieval of the last call did not deliver passages
RetrievalFailed ==
    /\ turn > 0
    /\ fout.fn = "retrieval"
    /\ fout.site # "none"
    /\ fout.outcome # "passages"

\* C24: when policy retrieval fails during a turn, the turn goes on with the
\* "no information found" context text and produces its response; the
\* failure never aborts the turn.
C24_RetrievalFailureDegrades ==
    RetrievalFailed =>
        /\ ~last.raised
        /\ fout.context = NoContextText
        /\ conv.exists
        /\ Len(conv.agent_responses) > Len(last.passed.agent_responses)

\* the entries the last call added to the conversation history
HistoryAdded ==
    SubSeq(conv.conversation_history, Len(last.passed.conversation_history) + 1,
           Len(conv.conversation_history))

\* the history the call was given is kept as a prefix
HistoryPrefixKept ==
    /\ Len(conv.conversation_history) >= Len(last.passed.conversation_history)
    /\ SubSeq(conv.conversation_history, 1, Len(last.passed.conversation_history))
          = last.passed.conversation_history

\* C25: the conversation history is append-only and interleaved: every turn
\* adds the customer's message exactly once, followed by the agent's response
\* text, and removes or rewrites no earlier entry.
C25_HistoryInterleavedAppendOnly ==
    turn > 0 =>
        /\ HistoryPrefixKept
        /\ Len(HistoryAdded) >= 2
        /\ HistoryAdded[1] = conv.customer_message
        /\ Cardinality({i \in 1..Len(HistoryAdded) : HistoryAdded[i] = conv.customer_message}) = 1
        /\ \A i \in 2..Len(HistoryAdded) :
              \E j \in 1..Len(NewResponses) : NewResponses[j].response = HistoryAdded[i]

-----------------------------------------------------------------------------
(* The chat loop with the object main() holds across the call and what it prints *)

\* The dict passed to run() as previous_state, after run() returned the run m.
\* previous_state.copy() is shallow: the copy shares the two lists, and run()
\* and the nodes it calls directly append to them in place.  inGraph: whether
\* the appends made inside self.workflow.invoke reach the caller's lists.
HeldAfterReturn(previous_state, m, inGraph) ==
    IF ~previous_state.exists THEN previous_state
    ELSE [previous_state EXCEPT
            !.conversation_history =
                IF RunBranch(previous_state) # "regreet" \/ inGraph
                THEN m.st.conversation_history
                ELSE Append(@, m.st.customer_message),
            !.agent_responses =
                IF RunBranch(previous_state) # "regreet" \/ inGraph
                THEN m.st.agent_responses
                ELSE @]

\* main(): old_state when the responses are printed; it names the object held
\* before the reset rule, which run() received unless the rule fired
OldState(conversation_state, previous_state, m, inGraph) ==
    IF ResetRule(conversation_state) THEN conversation_state
    ELSE HeldAfterReturn(previous_state, m, inGraph)

\* all_responses[prev_responses_count:]
SliceFrom(all_responses, prev_responses_count) ==
    SubSeq(all_responses, prev_responses_count + 1, Len(all_responses))

\* main(): responses_to_show
ResponsesToShow(old_state, result) ==
    IF SliceFrom(result.agent_responses,
                 IF old_state.exists THEN Len(old_state.agent_responses) ELSE 0) # <<>>
    THEN SliceFrom(result.agent_responses,
                   IF old_state.exists THEN Len(old_state.agent_responses) ELSE 0)
    ELSE result.agent_responses

\* what one pass of the loop leaves besides the new conversation_state
LoopRecord(n, held, old_state, result) ==
    [fn |-> "loop", turn |-> n, held |-> held, old_state |-> old_state,
     shown |-> ResponsesToShow(old_state, result)]

\* One pass of the chat loop in which run() returns
LoopTurn ==
    /\ turn < MaxFailTurns
    /\ \E customer_message \in SessionMessages,
          email_input \in (IF email = "" THEN SessionEmails ELSE {""}) :
         LET customer_email == IF email = "" THEN email_input ELSE email
             previous_state == PassedState(conv)
         IN \E llm \in LlmChoices(previous_state, customer_email) :
            \E raw \in RawChoices(previous_state, customer_message, customer_email, llm) :
            \E inGraph \in (IF RunBranch(previous_state) = "regreet" THEN BOOLEAN ELSE {FALSE}) :
            \E result \in {Run(customer_message, customer_email, previous_state, llm, raw)} :
              /\ conv' = result.st
              /\ email' = customer_email
              /\ auditLog' = auditLog \o result.log
              /\ turn' = turn + 1
              /\ last' = [before |-> conv, passed |-> previous_state, steps |-> result.steps,
                          auditBefore |-> Len(auditLog), failed |-> "none", raised |-> FALSE]
              /\ fout' = LoopRecord(turn + 1,
                                    HeldAfterReturn(previous_state, result, inGraph),
                                    OldState(conv, previous_state, result, inGraph),
                                    result.st)
    /\ UNCHANGED fin

NextLoop == LoopTurn \/ FailedTurn

SpecLoop == Init /\ [][NextLoop]_vars

\* the object the caller passed to the last call, as the caller holds it now
CallerSnapshot ==
    IF last.raised THEN conv ELSE fout.held

\* the last call was given a previous state
CalledWithState ==
    /\ turn > 0
    /\ last.passed.exists
    /\ last.raised \/ (fout.fn = "loop" /\ fout.turn = turn)

\* C26: run() does not modify the state object passed as previous_state, its
\* history and response lists included, whether the call returns or raises.
C26_PreviousStateUntouched ==
    CalledWithState => CallerSnapshot = last.passed

\* the last pass of the loop printed responses
PrintedTurn == turn > 0 /\ ~last.raised /\ fout.fn = "loop" /\ fout.turn = turn

\* C27: after every turn of a multi-turn session the transcript printer shows
\* exactly the agent responses produced in that turn and none from earlier turns.
C27_PrinterShowsOnlyNewResponses ==
    PrintedTurn => fout.shown = NewResponses

\* the last call was given a state holding an email and no other email
EmailHeldNoneSupplied ==
    /\ turn > 0
    /\ last.passed.exists
    /\ last.passed.customer_email # ""
    /\ email \in {"", last.passed.customer_email}

\* no email is known to the session after the last call
NoEmailKnown == turn > 0 /\ email = "" /\ conv.exists

\* C28: once the state holds a customer email, a later turn that supplies no
\* new email leaves it unchanged; and while no email is known the state's
\* email stays empty instead of becoming a placeholder value.
C28_EmailPersistsOrStaysEmpty ==
    /\ EmailHeldNoneSupplied => conv.customer_email = last.passed.customer_email
    /\ NoEmailKnown => conv.customer_email = ""

\* the role whose response was the last one of the state given to the last call
AgentPassed ==
    IF last.passed.agent_responses = <<>> THEN ""
    ELSE LastOf(last.passed.agent_responses).agent

\* the last call continued a conversation: the state was not reset
ContinuedTurn == turn > 0 /\ last.passed.exists

-----------------------------------------------------------------------------
(* customer_tools.py: update_customer_status called by independent conversations *)

MaxWriters == 3

\* the conversations that reach the commit step at the same time, one process each
Writers == 1..MaxWriters

\* How open(log_path, 'a') followed by one write of the entry reaches the file.
\* The code takes no lock; what the append does is left to the platform:
\*   "kernel_append"   : the position is set and the bytes are written in one
\*                       indivisible step (O_APPEND on a local POSIX file system)
\*   "seek_then_write" : the end of the file is looked up, then the bytes are
\*                       written there (append emulated by the C runtime, or
\*                       O_APPEND on a network file system)
AppendModes == {"kernel_append", "seek_then_write"}

\* log_entry of a writer, character by character, each cell tagged with its writer
EntryLine(w, customer_id) ==
    [i \in 1..(Len(Chars(customer_id)) + 1) |->
        [writer |-> w,
         char |-> IF i <= Len(Chars(customer_id)) THEN Chars(customer_id)[i] ELSE "\n"]]

\* the file after line was written at offset pos
WrittenAt(file, pos, line) ==
    [k \in 1..(IF pos + Len(line) > Len(file) THEN pos + Len(line) ELSE Len(file)) |->
        IF k > pos /\ k <= pos + Len(line) THEN line[k - pos] ELSE file[k]]

InitAppends ==
    /\ conv = NoState
    /\ email = ""
    /\ auditLog = <<>>
    /\ turn = 0
    /\ last = NoTurn
    /\ fin \in [kind : {"appends"}, mode : AppendModes, parts : {<<>>}]
    /\ fout = [fn |-> "appends",
               pc |-> [w \in Writers |-> "idle"],
               pos |-> [w \in Writers |-> 0],
               line |-> [w \in Writers |-> <<>>]]

\* with open(log_path, 'a') as f, the entry formatted for the writer's customer
OpenAppend(w) ==
    /\ fout.pc[w] = "idle"
    /\ \E customer_id \in {"CUST_001", "UNKNOWN"} :
         fout' = [fout EXCEPT !.pc[w] = "opened", !.line[w] = EntryLine(w, customer_id)]
    /\ UNCHANGED <<conv, email, auditLog, turn, last, fin>>

\* f.write(log_entry) and the close, the platform appending in one step
KernelAppend(w) ==
    /\ fin.mode = "kernel_append"
    /\ fout.pc[w] = "opened"
    /\ auditLog' = auditLog \o fout.line[w]
    /\ fout' = [fout EXCEPT !.pc[w] = "done"]
    /\ UNCHANGED <<conv, email, turn, last, fin>>

\* f.write(log_entry) and the close, first half: the end of the file is looked up
SeekEnd(w) ==
    /\ fin.mode = "seek_then_write"
    /\ fout.pc[w] = "opened"
    /\ fout' = [fout EXCEPT !.pc[w] = "sought", !.pos[w] = Len(auditLog)]
    /\ UNCHANGED <<conv, email, auditLog, turn, last, fin>>

\* second half: the bytes are written at the position looked up
WriteAtPos(w) ==
    /\ fout.pc[w] = "sought"
    /\ auditLog' = WrittenAt(auditLog, fout.pos[w], fout.line[w])
    /\ fout' = [fout EXCEPT !.pc[w] = "done"]
    /\ UNCHANGED <<conv, email, turn, last, fin>>

NextAppends ==
    \E w \in Writers : OpenAppend(w) \/ KernelAppend(w) \/ SeekEnd(w) \/ WriteAtPos(w)

SpecAppends == InitAppends /\ [][NextAppends]_vars

\* the writers whose append has finished
DoneWriters == {w \in Writers : fout.pc[w] = "done"}

\* the entry of writer w stands whole in the log
EntryWhole(w) ==
    \E s \in 0..Len(auditLog) :
        \A i \in 1..Len(fout.line[w]) :
            s + i <= Len(auditLog) /\ auditLog[s + i] = fout.line[w][i]

\* C30: concurrent appends from independent conversations never interleave
\* partial lines: after any interleaving of appends the log is a sequence of
\* complete entries, exactly one per append.
C30_AppendsLeaveWholeEntries ==
    fout.fn = "appends" =>
        /\ \A w \in DoneWriters : EntryWhole(w)
        /\ Len(auditLog) =
              Cardinality({<<w, i>> : w \in DoneWriters, i \in 1..(Len(Chars("CUST_001")) + 1)}
                            \ {<<w, i>> \in DoneWriters \X (1..(Len(Chars("CUST_001")) + 1)) :
                                  i > Len(fout.line[w])})

\* the lines of the generated text before its first line with a reasoning phrase
LinesBeforeReasoning ==
    LET hits == {i \in 1..Len(fin.parts) :
                    \E p \in ReasoningPhrases : Contains(Lower(Chars(fin.parts[i])), Chars(p))}
    IN IF hits = {} THEN fin.parts
       ELSE SubSeq(fin.parts, 1, (CHOOSE i \in hits : \A j \in hits : i <= j) - 1)

\* the lines of a text that are not blank
NonBlankLines(lines) == SelectSeq(lines, LAMBDA line : ~IsBlankLine(line))

\* C31: the retention post-processing drops every line from the first line
\* with a self-referential explanation phrase onward and keeps the earlier
\* lines; if nothing is left the unstripped output is returned, so the
\* returned response is never empty; the flag is computed on the returned text.
C31_CleanupKeepsEarlierLinesNeverEmpty ==
    fout.fn = "retention" =>
        /\ IF NonBlankLines(LinesBeforeReasoning) # <<>>
           THEN NonBlankLines(fout.result.response) = NonBlankLines(LinesBeforeReasoning)
           ELSE fout.result.response = fin.parts
        /\ LinesText(fout.result.response) # <<>>
        /\ fout.result.should_process_cancellation <=>
              /\ \E p \in AcceptancePhrases :
                    Contains(Lower(LinesText(fout.result.response)), Chars(p))
              /\ ~\E p \in OfferPhrases :
                    Contains(Lower(LinesText(fout.result.response)), Chars(p))


\* the retention planner answered in the last call with a true flag
PlannerFlagThisTurn ==
    /\ turn > 0
    /\ \E i \in 1..Len(NewResponses) :
          /\ NewResponses[i].agent = "retention"
          /\ NewResponses[i].should_process_cancellation

\* C33: at the end of a turn in which the retention planner returned a true
\* should_process_cancellation, the commit step has run in that same turn, on
\* a first turn as on a retention follow-up.
C33_PlannerFlagCommitsInSameTurn ==
    PlannerFlagThisTurn => CommitRan


\* a turn of the session had returned cancellation_processed before the last
\* call, and the last call worked on that same, un-reset state
AfterProcessedCancellation ==
    /\ turn > 0
    /\ last.before.exists
    /\ last.before.final_action = "cancellation_processed"
    /\ last.passed = last.before

\* C34: within one session without reset the commit step runs at most once:
\* after a turn that returned cancellation_processed, no later turn writes
\* another audit entry or appends another processor response.
C34_CommitAtMostOncePerSession ==
    AfterProcessedCancellation =>
        /\ Len(auditLog) = last.auditBefore
        /\ \A i \in 1..Len(NewResponses) : NewResponses[i].agent # "processor"


\* C35: the audit log gets a cancellation entry only in a turn that returns to
\* the caller with final_action = cancellation_processed: a turn whose
\* confirmation call fails leaves no entry behind, so that retrying it cannot
\* produce a second one.
C35_AuditEntryOnlyForReturnedCancellation ==
    (turn > 0 /\ Len(auditLog) > last.auditBefore) =>
        /\ ~last.raised
        /\ conv.final_action = "cancellation_processed"


\* the position in the response list where the last call's responses start
FirstNew == Len(last.passed.agent_responses) + 1

\* C36: every processor entry of the response list is immediately preceded by
\* a retention entry, appended in the same turn; the commit step runs only in
\* a turn in which the retention step ran just before it.
C36_CommitPrecededByRetention ==
    /\ \A i \in 1..Len(conv.agent_responses) :
          conv.agent_responses[i].agent = "processor" =>
             /\ i > 1
             /\ conv.agent_responses[i - 1].agent = "retention"
             /\ (turn > 0 /\ i >= FirstNew) => i - 1 >= FirstNew
    /\ \A i \in 1..Len(last.steps) :
          last.steps[i] = "processor" => (i > 1 /\ last.steps[i - 1] = "retention")

C36_Witness ==
    /\ turn = 3
    /\ last.steps = <<"retention", "processor">>
    /\ Len(conv.agent_responses) = 5
    /\ conv.agent_responses[5].agent = "processor"
    /\ conv.agent_responses[4].agent = "retention"
    /\ FirstNew = 4


\* the role of the most recent response of the state passed to the last call
RolePassed ==
    IF last.passed.exists /\ last.passed.agent_responses # <<>>
    THEN LastOf(last.passed.agent_responses).agent
    ELSE ""

\* C37: once billing or technical_support is the role of the most recent
\* response, every later run() on that state appends exactly one response of
\* that role and runs neither the intent classifier nor the retention or the
\* commit step, also after an affirmative reply was confirmed.
C37_SupportRoleKeepsTheConversation ==
    (turn > 0 /\ RolePassed \in {"billing", "technical_support"}) =>
        /\ last.steps = <<RolePassed>>
        /\ Len(NewResponses) = 1
        /\ NewResponses[1].agent = RolePassed
        /\ Len(auditLog) = last.auditBefore

C37_Witness ==
    /\ turn = 3
    /\ RolePassed = "billing"
    /\ last.steps = <<"billing">>
    /\ Len(conv.agent_responses) = 4
    /\ conv.agent_responses[3].response = <<"billing transfer confirmation">>
    /\ conv.agent_responses[4].agent = "billing"


\* a processor response was appended during the last call
ProcessorResponseAppended ==
    \E i \in 1..Len(NewResponses) : NewResponses[i].agent = "processor"

\* C38: in every state run() returns, final_action describes the turn that
\* just ran: it is cancellation_processed exactly when a processor response
\* was appended during that turn, never a value carried over from an earlier turn.
C38_FinalActionDescribesThisTurn ==
    turn > 0 =>
        (conv.final_action = "cancellation_processed" <=> ProcessorResponseAppended)


\* a greeter response that answers the question instead of announcing a routing
DirectGeneralAnswer(r) ==
    r.agent = "greeter" /\ r.response = <<"general answer">>

\* a response after which no further input is expected in its turn
TerminalResponse(r) ==
    \/ r.agent \in {"processor", "technical_support", "billing"}
    \/ DirectGeneralAnswer(r)

\* C39: after every turn, completed is true exactly when the last response is
\* a processor confirmation, a technical_support response, a billing response
\* or a greeter's direct general answer; it is false when the last response is
\* a retention response or a greeter routing notice.
C39_CompletedIffTerminalResponse ==
    (turn > 0 /\ conv.agent_responses # <<>>) =>
        (conv.completed <=> TerminalResponse(LastOf(conv.agent_responses)))

C39_Witness ==
    /\ turn = 2
    /\ last.before.completed
    /\ last.steps = <<"greeter", "retention">>
    /\ LastOf(conv.agent_responses).agent = "retention"
    /\ ~conv.completed


\* the orders of role steps the graph and the branches of run() allow
AllowedStepOrders ==
    {<<"greeter">>, <<"greeter", "technical_support">>, <<"greeter", "billing">>,
     <<"greeter", "retention">>, <<"greeter", "retention", "processor">>,
     <<"retention">>, <<"retention", "processor">>,
     <<"billing">>, <<"technical_support">>}

\* C40: every run() call whose external calls return ends after at most three
\* role steps, in one of the orders greeter; greeter, technical_support;
\* greeter, billing; greeter, retention; greeter, retention, processor;
\* retention; retention, processor; or one billing or technical follow-up;
\* no role step runs twice in a turn.
C40_TurnRunsAtMostThreeSteps ==
    turn > 0 =>
        /\ last.steps \in AllowedStepOrders
        /\ Len(last.steps) <= 3
        /\ \A i, j \in 1..Len(last.steps) : last.steps[i] = last.steps[j] => i = j
        /\ Len(NewResponses) = Len(last.steps)

C40_Witness ==
    /\ turn = 2
    /\ last.passed.exists
    /\ last.steps = <<"greeter", "retention", "processor">>
    /\ Len(NewResponses) = 3


-----------------------------------------------------------------------------
(* GreeterAgent.process: locating the JSON object in the generator's output *)

\* The classification output as a sequence of pieces.  Only braces matter to
\* the pattern; "fields" stands for the two members "intent": "billing",
\* "next_agent": "billing", "prose" for words that are no JSON.  A "{" inside
\* an object stands for a member whose value is the object it opens; the
\* separators between members are taken as correct.
OutputPieces == {"{", "}", "fields", "prose"}

MaxPieces == 7

\* the rest of the pattern \{[^{}]*(?:\{[^{}]*\}[^{}]*)*\} from position i on,
\* inside (depth 2) or outside (depth 1) a group: the position of the closing
\* brace of the match, 0 when there is none
RECURSIVE PatternEnd(_, _, _)
PatternEnd(response_text, i, depth) ==
    IF i > Len(response_text) THEN 0
    ELSE IF response_text[i] = "{"
         THEN IF depth = 1 THEN PatternEnd(response_text, i + 1, 2) ELSE 0
    ELSE IF response_text[i] = "}"
         THEN IF depth = 2 THEN PatternEnd(response_text, i + 1, 1) ELSE i
    ELSE PatternEnd(response_text, i + 1, depth)

\* the end of the pattern's match that starts at s, 0 when none starts there
MatchEndAt(response_text, s) ==
    IF response_text[s] = "{" THEN PatternEnd(response_text, s + 1, 1) ELSE 0

\* the least element of a non-empty set of positions
Leftmost(positions) == CHOOSE s \in positions : \A u \in positions : s <= u

\* json_match.group() of re.search: the leftmost match, <<>> without a match
JsonMatchFrom(response_text, starts) ==
    IF starts = {} THEN <<>>
    ELSE SubSeq(response_text, Leftmost(starts),
                MatchEndAt(response_text, Leftmost(starts)))

JsonMatch(response_text) ==
    JsonMatchFrom(response_text,
        {s \in 1..Len(response_text) : MatchEndAt(response_text, s) # 0})

\* the number of objects open at position i of a text
DepthAt(text, i) ==
    Cardinality({j \in 1..(i - 1) : text[j] = "{"})
        - Cardinality({j \in 1..(i - 1) : text[j] = "}"})

\* json.loads raises on the text
JsonLoadsRaises(text) == \E i \in 1..Len(text) : text[i] = "prose"

\* the object json.loads returns holds the keys intent and next_agent
HasFields(text) ==
    \E i \in 1..Len(text) : text[i] = "fields" /\ DepthAt(text, i) = 1

\* what the classifier makes of the match
LoadedMatch(match) ==
    IF match = <<>> \/ JsonLoadsRaises(match)
    THEN GreeterOutput(FALSE, Absent, Absent, Absent)
    ELSE IF HasFields(match)
    THEN GreeterOutput(TRUE, "billing", "billing", Absent)
    ELSE GreeterOutput(TRUE, Absent, Absent, Absent)

\* re.search and json.loads applied to the generator's output
ParsedOutput(response_text) == LoadedMatch(JsonMatch(response_text))

\* the message the outputs are tried with: the keyword cascade makes it
\* technical_support
ParseMessage == <<"phone won't charge">>

InitParse ==
    /\ conv = NoState
    /\ email = ""
    /\ auditLog = <<>>
    /\ turn = 0
    /\ last = NoTurn
    /\ fin \in [kind : {"output"}, parts : SeqsUpTo(OutputPieces, MaxPieces)]
    /\ fout = [fn |-> "none"]

\* GreeterAgent.process on a generator output given as pieces
ParseOutput ==
    /\ fin.kind = "output"
    /\ fout.fn = "none"
    /\ fout' = [fn |-> "parse",
                result |-> GreeterProcess(ParseMessage, "", ParsedOutput(fin.parts))]
    /\ UNCHANGED <<conv, email, auditLog, turn, last, fin>>

NextParse == ParseOutput

SpecParse == InitParse /\ [][NextParse]_vars

\* the text from its first "{" on, <<>> when it has none
FromFirstOpen(text) ==
    IF \E i \in 1..Len(text) : text[i] = "{"
    THEN SubSeq(text, Leftmost({i \in 1..Len(text) : text[i] = "{"}), Len(text))
    ELSE <<>>

\* the object that starts a text: up to the brace that closes its first
\* brace, <<>> when that brace is never closed
BalancedPrefix(tail) ==
    IF \E k \in 1..Len(tail) : DepthAt(tail, k + 1) = 0
    THEN SubSeq(tail, 1, Leftmost({k \in 1..Len(tail) : DepthAt(tail, k + 1) = 0}))
    ELSE <<>>

\* the outermost balanced-brace object of the text, <<>> when there is none
OutermostObject(text) == BalancedPrefix(FromFirstOpen(text))

\* the output holds a well-formed object with intent and next_agent, possibly
\* with objects nested in it and prose around it
HoldsClassificationObject(text) ==
    /\ OutermostObject(text) # <<>>
    /\ ~JsonLoadsRaises(OutermostObject(text))
    /\ HasFields(OutermostObject(text))

\* C32: when the generator's output holds a well-formed object with intent
\* and next_agent, possibly surrounded by prose and possibly holding nested
\* objects, the result carries that object's intent and next_agent and not
\* the keyword cascade's.
C32_OutermostObjectClassifies ==
    (fout.fn = "parse" /\ HoldsClassificationObject(fin.parts)) =>
        /\ fout.result.intent = "billing"
        /\ fout.result.next_agent = "billing"

=============================================================================
